---------------------------- MODULE Spec2Model ----------------------------
(***************************************************************************)
(* Credential and authorization broker of google-workspace-mcp             *)
(* (src/src/server.ts with src/src/db.ts, crypto, configSchema and the     *)
(* administrative CLI).                                                     *)
(*                                                                         *)
(* Strings of the program that are only compared are TLA+ strings.         *)
(* Strings that the program takes apart (host names, the allowlist         *)
(* setting) are sequences of one-character strings.  Strings that the      *)
(* program hashes or encodes (codes, tokens, keys, PKCE verifiers and      *)
(* challenges, digests) are sequences of small integers.                   *)
(***************************************************************************)
EXTENDS Integers, Sequences, FiniteSets, TLC

VARIABLES
    REDIRECT_URI_ALLOWLIST, \* config.REDIRECT_URI_ALLOWLIST (the raw setting)
    API_KEY_MODE,           \* config.API_KEY_MODE
    clients,                \* table clients
    connections,            \* table connections
    authCodes,              \* table auth_codes
    sessions,               \* table sessions
    userConfigs,            \* table user_configs
    apiKeys,                \* table api_keys
    credentials,            \* credentialStore: the identities with a stored credential
    now,                    \* the clock (seconds)
    ticks,                  \* how often the clock has advanced
    reqs,                   \* the POST /token requests, in order of arrival
    issued,                 \* history: the issuances that wrote their rows
    granted,                \* history: the access tokens handed out
    lastResp,               \* the response of the latest handler that answered
    call,                   \* argument of a directly applied function
    ret,                    \* its result
    limiter                 \* the rate limiters' stores: hits of each client IP

vars == <<REDIRECT_URI_ALLOWLIST, API_KEY_MODE, clients, connections, authCodes, sessions,
          userConfigs, apiKeys, credentials, now, ticks, reqs, issued, granted,
          lastResp, call, ret, limiter>>

dbVars == <<clients, connections, authCodes, sessions, userConfigs, apiKeys>>

----------------------------------------------------------------------------
(* Bounds of the model. *)

MaxClients == 2
MaxIssued == 2
MaxTokenCalls == 2
MaxTicks == 2
MaxKeys == 2

----------------------------------------------------------------------------
(* Character strings. *)

Range(s) == {s[i] : i \in 1..Len(s)}

\* String.prototype.toLowerCase on the letters the model uses
LowerChar(c) ==
    CASE c = "G" -> "g"
      [] c = "C" -> "c"
      [] c = "O" -> "o"
      [] OTHER -> c

ToLowerCase(s) == [i \in 1..Len(s) |-> LowerChar(s[i])]

RECURSIVE TrimStart(_)
TrimStart(s) ==
    IF s # <<>> /\ s[1] = " " THEN TrimStart(Tail(s)) ELSE s

RECURSIVE TrimEnd(_)
TrimEnd(s) ==
    IF s # <<>> /\ s[Len(s)] = " " THEN TrimEnd(SubSeq(s, 1, Len(s) - 1)) ELSE s

\* String.prototype.trim
Trim(s) == TrimEnd(TrimStart(s))

\* String.prototype.split(',')
RECURSIVE SplitComma(_)
SplitComma(s) ==
    IF \E i \in 1..Len(s) : s[i] = ","
    THEN LET i == CHOOSE k \in 1..Len(s) :
                      s[k] = "," /\ \A j \in 1..(k - 1) : s[j] # ","
         IN  <<SubSeq(s, 1, i - 1)>> \o SplitComma(SubSeq(s, i + 1, Len(s)))
    ELSE <<s>>

\* Array.prototype.filter(Boolean) on an array of strings
RECURSIVE FilterNonEmpty(_)
FilterNonEmpty(items) ==
    IF items = <<>> THEN <<>>
    ELSE IF Head(items) = <<>> THEN FilterNonEmpty(Tail(items))
    ELSE <<Head(items)>> \o FilterNonEmpty(Tail(items))

\* String.prototype.endsWith
EndsWith(s, suffix) ==
    /\ Len(suffix) <= Len(s)
    /\ SubSeq(s, Len(s) - Len(suffix) + 1, Len(s)) = suffix

----------------------------------------------------------------------------
(* Redirect URIs.  A URI is the record of its scheme, its host as written  *)
(* and its path; two URIs are the same string exactly when the records are *)
(* equal.  new URL(uri) throws on a string without a scheme.               *)

Uri(scheme, host, path) == [scheme |-> scheme, host |-> host, path |-> path]

GoodUri == Uri("https", <<"g", ".", "c", "o">>, "/cb")
GoodUri2 == Uri("https", <<"g", ".", "c", "o">>, "/other")
SubUri == Uri("https", <<"a", ".", "g", ".", "c", "o">>, "/cb")
UpperUri == Uri("https", <<"G", ".", "C", "O">>, "/cb")
LookalikeUri == Uri("https", <<"x", "g", ".", "c", "o">>, "/cb")
EvilUri == Uri("https", <<"e", ".", "i", "o">>, "/cb")
NoSchemeUri == Uri("", <<"g", ".", "c", "o">>, "/cb")

AllUris == {GoodUri, GoodUri2, SubUri, UpperUri, LookalikeUri, EvilUri, NoSchemeUri}

\* new URL(uri) succeeds
UrlParses(uri) == uri.scheme # ""

\* new URL(uri).hostname.toLowerCase()
Hostname(uri) == ToLowerCase(uri.host)

\* settings of REDIRECT_URI_ALLOWLIST
NoAllowlist == <<>>
CommaOnly == <<",", " ">>
AllowG == <<"g", ".", "c", "o">>
AllowGUpperSpaced == <<" ", "G", ".", "c", "o", " ", ",", "e", ".", "i", "o">>
AllowE == <<"e", ".", "i", "o">>

AllAllowlists == {NoAllowlist, CommaOnly, AllowG, AllowGUpperSpaced, AllowE}

\* getAllowlist(): split(','), trim and lower-case each item, drop the empty ones
getAllowlist ==
    LET items == SplitComma(REDIRECT_URI_ALLOWLIST)
    IN  FilterNonEmpty([i \in 1..Len(items) |-> ToLowerCase(Trim(items[i]))])

HostMatches_NoDot(hostname, domain) ==
    hostname = domain \/ EndsWith(hostname, domain)

\* hostname === domain || hostname.endsWith(`.${domain}`)
HostMatches(hostname, domain) ==
    hostname = domain \/ EndsWith(hostname, <<".">> \o domain)

\* allowlist.some(domain => ...)
HostAllowed(hostname, allowlist) ==
    \E i \in 1..Len(allowlist) : HostMatches(hostname, allowlist[i])

\* A value of the JSON column redirect_uris: an array of strings, or something
\* that is not an array.
JsonArray(items) == [kind |-> "array", items |-> items]
JsonObject == [kind |-> "object"]

\* Array.isArray
IsArray(v) == v.kind = "array"

\* clientRedirects.includes(redirectUri)
Includes(v, x) == \E i \in 1..Len(v.items) : v.items[i] = x

isRedirectAllowed_RegisteredOnly(redirectUri, clientRedirects) ==
    IsArray(clientRedirects) /\ Includes(clientRedirects, redirectUri)

isRedirectAllowed(redirectUri, clientRedirects) ==
    IF ~IsArray(clientRedirects) \/ ~Includes(clientRedirects, redirectUri)
    THEN FALSE
    ELSE LET allowlist == getAllowlist
         IN  IF Len(allowlist) = 0 THEN FALSE
             ELSE IF ~UrlParses(redirectUri) THEN FALSE
             ELSE HostAllowed(Hostname(redirectUri), allowlist)

----------------------------------------------------------------------------
(* Hashing and encoding.  A byte string is a sequence of numbers 0..255, a *)
(* text is a sequence of character codes.  SHA-256 is a 16-bit digest      *)
(* computed over the text: two bytes, so that its base64 form ends in one  *)
(* padding character, as the base64 form of a 32-byte digest does.         *)

RECURSIVE DigestFold(_, _)
DigestFold(s, h) ==
    IF s = <<>> THEN h
    ELSE DigestFold(Tail(s), (h * 31 + Head(s) + 1) % 65536)

\* crypto.createHash('sha256').update(value, 'utf8').digest()
Sha256(value) ==
    LET h == DigestFold(value, 64222) IN <<h \div 256, h % 256>>

\* Buffer.toString('hex'): two hexadecimal digits (0..15) for each byte
RECURSIVE ToHex(_)
ToHex(bytes) ==
    IF bytes = <<>> THEN <<>>
    ELSE <<Head(bytes) \div 16, Head(bytes) % 16>> \o ToHex(Tail(bytes))

sha256Hex_Raw(value) == value

sha256Hex(value) == ToHex(Sha256(value))

\* Characters of base64 text: 0..61 the letters and digits, then '+', '/',
\* the padding '=', and the replacements '-' and '_' of the URL alphabet.
CharPlus == 62
CharSlash == 63
CharPad == 64
CharMinus == 65
CharUnderscore == 66

\* Buffer.toString('base64')
RECURSIVE ToBase64(_)
ToBase64(bytes) ==
    IF bytes = <<>> THEN <<>>
    ELSE IF Len(bytes) = 1
    THEN <<bytes[1] \div 4, (bytes[1] % 4) * 16, CharPad, CharPad>>
    ELSE IF Len(bytes) = 2
    THEN <<bytes[1] \div 4, (bytes[1] % 4) * 16 + bytes[2] \div 16,
           (bytes[2] % 16) * 4, CharPad>>
    ELSE <<bytes[1] \div 4, (bytes[1] % 4) * 16 + bytes[2] \div 16,
           (bytes[2] % 16) * 4 + bytes[3] \div 64, bytes[3] % 64>>
         \o ToBase64(SubSeq(bytes, 4, Len(bytes)))

\* String.prototype.replace(/c/g, '') 
RECURSIVE RemoveChar(_, _)
RemoveChar(s, c) ==
    IF s = <<>> THEN <<>>
    ELSE IF Head(s) = c THEN RemoveChar(Tail(s), c)
    ELSE <<Head(s)>> \o RemoveChar(Tail(s), c)

\* String.prototype.replace(/c/g, d)
ReplaceChar(s, c, d) == [i \in 1..Len(s) |-> IF s[i] = c THEN d ELSE s[i]]

base64url_Standard(buffer) == ToBase64(buffer)

base64url(buffer) ==
    ReplaceChar(ReplaceChar(RemoveChar(ToBase64(buffer), CharPad),
                            CharPlus, CharMinus),
                CharSlash, CharUnderscore)

\* the prefixes of the opaque values, as one character each
PrefixCode == 201      \* 'mcp_cd_'
PrefixToken == 202     \* 'mcp_at_'
PrefixKey == 203       \* 'mcp_sk_'

\* randomToken(prefix, bytes): the prefix and fresh random hexadecimal text;
\* the n-th draw of the process stands for the random text
randomToken(prefix, n) == <<prefix, n>>

\* a string value that is absent (undefined)
Undefined == <<-1>>

\* a column or a time that is NULL
Null == -1

Falsy(text) == text = Undefined \/ text = <<>>

getPkceError(method) ==
    IF method = "" THEN "code_challenge_method is required"
    ELSE IF method # "S256" /\ method # "plain"
    THEN "code_challenge_method must be S256 or plain"
    ELSE "none"

verifyPkce(method, codeChallenge, verifier) ==
    IF method = "plain" THEN codeChallenge = verifier
    ELSE base64url(Sha256(verifier)) = codeChallenge

----------------------------------------------------------------------------
(* Configuration payloads (configSchema.ts).  A payload maps the keys it   *)
(* has to values; a value is the record of its JavaScript type and text.   *)

JsString(text) == [type |-> "string", text |-> text]
JsArrayValue(text) == [type |-> "array", text |-> text]
JsNull == [type |-> "null", text |-> ""]
JsUndefined == [type |-> "undefined", text |-> ""]
JsBoolean(text) == [type |-> "boolean", text |-> text]
JsNumber(text) == [type |-> "number", text |-> text]

\* !value
JsFalsy(value) ==
    \/ value.type \in {"undefined", "null"}
    \/ value = JsString("")
    \/ value = JsBoolean("false")
    \/ value = JsNumber("0")

\* String(value), as URLSearchParams.set converts its argument
ToStringValue(value) ==
    IF value.type = "object" THEN "[object Object]" ELSE value.text

\* if (state) redirectUrl.searchParams.set('state', state): the state
\* parameter the client reads from the redirect URL, undefined when the URL
\* has none
SearchParamState(state) ==
    IF JsFalsy(state) THEN JsUndefined ELSE JsString(ToStringValue(state))

\* typeof value
TypeOf(value) ==
    IF value.type \in {"null", "array"} THEN "object" ELSE value.type

Field(name, type, required, sensitive, format) ==
    [name |-> name, type |-> type, required |-> required,
     sensitive |-> sensitive, format |-> format]

defaultSchema ==
    <<Field("apiKey", "password", TRUE, TRUE, ""),
      Field("teamId", "text", TRUE, FALSE, ""),
      Field("scopes", "text", FALSE, FALSE, "csv")>>

getSchema == defaultSchema

\* data[field.name]
Get(data, key) == IF key \in DOMAIN data THEN data[key] ELSE JsUndefined

\* the message, if any, that validateConfig pushes for one field
FieldError(field, data) ==
    LET value == Get(data, field.name)
    IN  IF field.required /\ (value.type \in {"undefined", "null"} \/ value = JsString(""))
        THEN <<field.name, "is required">>
        ELSE IF value.type \in {"undefined", "null"} THEN <<>>
        ELSE IF field.type = "checkbox" /\ TypeOf(value) # "boolean"
        THEN <<field.name, "must be a boolean">>
        ELSE IF field.format = "csv" /\ value.type # "array"
        THEN <<field.name, "must be a list">>
        ELSE IF field.format = "json" /\ TypeOf(value) # "object"
        THEN <<field.name, "must be JSON">>
        ELSE IF field.format = "" /\ field.type # "checkbox" /\ TypeOf(value) # "string"
        THEN <<field.name, "must be a string">>
        ELSE <<>>

\* the messages, were validation to stop at the first field in error
RECURSIVE ValidationErrors_FirstOnly(_, _)
ValidationErrors_FirstOnly(fields, data) ==
    IF fields = <<>> THEN <<>>
    ELSE LET e == FieldError(Head(fields), data)
         IN  IF e = <<>> THEN ValidationErrors_FirstOnly(Tail(fields), data)
             ELSE <<e>>

RECURSIVE ValidationErrors(_, _)
ValidationErrors(fields, data) ==
    IF fields = <<>> THEN <<>>
    ELSE LET e == FieldError(Head(fields), data)
         IN  (IF e = <<>> THEN <<>> ELSE <<e>>) \o ValidationErrors(Tail(fields), data)

validateConfig_AcceptAll(schema, payload) == [valid |-> TRUE, errors |-> <<>>]

validateConfig(schema, payload) ==
    LET errors == ValidationErrors(schema, payload)
    IN  [valid |-> Len(errors) = 0, errors |-> errors]

Restrict(f, keys) == [k \in keys |-> f[k]]

\* object[key] = value, for each of the keys, on an object literal {}: the
\* key '__proto__' names the accessor of Object.prototype, and assigning to
\* it makes no property of the object
AssignEach(config, keys) == Restrict(config, keys \ {"__proto__"})

splitSecrets(schema, config) ==
    LET sensitive == {schema[i].name : i \in {j \in 1..Len(schema) : schema[j].sensitive}}
    IN  [publicConfig |-> AssignEach(config, DOMAIN config \ sensitive),
         secretConfig |-> AssignEach(config, DOMAIN config \cap sensitive)]

EmptyPayload == <<>>
ValidPayload == [apiKey |-> JsString("s"), teamId |-> JsString("t1")]

\* encryptJson(masterKey, payload): the payload sealed under the key
encryptJson(masterKey, payload) == [sealedWith |-> masterKey, payload |-> payload]

\* decryptJson(masterKey, encoded): the payload, or an exception when the
\* authentication tag does not verify under the key
decryptJson(masterKey, encoded) ==
    IF encoded.sealedWith = masterKey
    THEN [threw |-> FALSE, payload |-> encoded.payload]
    ELSE [threw |-> TRUE, payload |-> <<>>]

MASTER_KEY == "master"

----------------------------------------------------------------------------
(* The tables (db.ts).  A table is the set of its rows.                    *)

NoClientId == 0           \* a client_id that is absent or empty
NoUri == Uri("", <<>>, "")   \* a redirect_uri that is absent or empty

ClientRows(client_id) == {c \in clients : c.clientId = client_id}
ConnectionRows(id) == {c \in connections : c.id = id}

DeleteConnectionCascade_ConnectionOnly(id) ==
    /\ connections' = {c \in connections : c.id # id}
    /\ UNCHANGED <<sessions, authCodes>>

\* the rows an ON DELETE CASCADE removes with a connection
DeleteConnectionCascade(id) ==
    /\ connections' = {c \in connections : c.id # id}
    /\ sessions' = {x \in sessions : x.connectionId # id}
    /\ authCodes' = {a \in authCodes : a.connectionId # id}

CODE_TTL_SECONDS == 90
TOKEN_TTL_SECONDS == 3600

\* req.auth when the guard attached nothing
\* the clientId 'user-bound-client' that the guard attaches for an API key
UserBoundClient == -2

NoAuth == [kind |-> "none", clientId |-> 0, config |-> <<>>]

\* a response: what the handler sent
Resp(op, status, error) ==
    [op |-> op, status |-> status, error |-> error, uri |-> NoUri,
     code |-> Undefined, token |-> Undefined, client_id |-> NoClientId,
     state |-> JsUndefined, googleState |-> <<>>, auth |-> NoAuth]

----------------------------------------------------------------------------
(* POST /register *)

\* the loop over redirectUris: it stops with the error of the first URI that
\* fails, or ends with every URI pushed to normalized
RECURSIVE RegisterLoop_SkipRejected(_, _, _)
RegisterLoop_SkipRejected(redirectUris, allowlist, normalized) ==
    IF redirectUris = <<>> THEN [error |-> "none", normalized |-> normalized]
    ELSE LET uri == Head(redirectUris)
         IN  IF ~UrlParses(uri) \/ ~HostAllowed(Hostname(uri), allowlist)
             THEN RegisterLoop_SkipRejected(Tail(redirectUris), allowlist, normalized)
             ELSE RegisterLoop_SkipRejected(Tail(redirectUris), allowlist,
                                            Append(normalized, uri))

RECURSIVE RegisterLoop(_, _, _)
RegisterLoop(redirectUris, allowlist, normalized) ==
    IF redirectUris = <<>> THEN [error |-> "none", normalized |-> normalized]
    ELSE LET uri == Head(redirectUris)
         IN  IF ~UrlParses(uri)
             THEN [error |-> "Invalid redirect_uri", normalized |-> normalized]
             ELSE IF ~HostAllowed(Hostname(uri), allowlist)
             THEN [error |-> "redirect URI is not in our allowlist",
                   normalized |-> normalized]
             ELSE RegisterLoop(Tail(redirectUris), allowlist, Append(normalized, uri))

RegisterOutcome(redirectUris) ==
    IF ~IsArray(redirectUris) \/ Len(redirectUris.items) = 0
    THEN [error |-> "redirect_uris must be a non-empty array", normalized |-> <<>>]
    ELSE IF Len(getAllowlist) = 0
    THEN [error |-> "Redirect allowlist is not configured", normalized |-> <<>>]
    ELSE RegisterLoop(redirectUris.items, getAllowlist, <<>>)

Register(redirectUris) ==
    /\ Cardinality(clients) < MaxClients
    /\ LET outcome == RegisterOutcome(redirectUris)
           clientId == Cardinality(clients) + 1
       IN  IF outcome.error # "none"
           THEN /\ lastResp' = Resp("register", 400, outcome.error)
                /\ UNCHANGED clients
           ELSE /\ clients' = clients \cup
                       {[clientId |-> clientId,
                         redirectUris |-> JsonArray(outcome.normalized)]}
                /\ lastResp' = [Resp("register", 200, "none") EXCEPT !.client_id = clientId]
    /\ call' = [fn |-> "register", redirects |-> redirectUris]
    /\ UNCHANGED <<limiter, REDIRECT_URI_ALLOWLIST, API_KEY_MODE, connections,
                   authCodes, sessions, userConfigs, apiKeys, credentials,
                   now, ticks, reqs, issued, granted, ret>>

----------------------------------------------------------------------------
(* Issuing an authorization code: POST /authorize and the upstream         *)
(* callback.                                                               *)

\* db.transaction: insert the connection and the code.  The insert of a
\* connection throws when no client has its client_id (foreign key), the
\* insert of a code when a NOT NULL column gets no value.
IssueTransactionThrows_NoForeignKey(client_id, code_challenge, code_challenge_method) ==
    \/ code_challenge = Undefined
    \/ code_challenge_method = ""

IssueTransactionThrows(client_id, code_challenge, code_challenge_method) ==
    \/ ClientRows(client_id) = {}
    \/ code_challenge = Undefined
    \/ code_challenge_method = ""

IssueTransaction_ReplacesConnection(connectionId, client_id, encryptedSecrets, config, authCode, code_challenge, code_challenge_method) ==
    /\ connections' = {c \in connections : c.clientId # client_id} \cup
           {[id |-> connectionId, clientId |-> client_id,
             encryptedSecrets |-> encryptedSecrets, config |-> config]}
    /\ authCodes' = authCodes \cup
           {[codeHash |-> sha256Hex(authCode), connectionId |-> connectionId,
             codeChallenge |-> code_challenge,
             codeChallengeMethod |-> code_challenge_method,
             expiresAt |-> now + CODE_TTL_SECONDS]}

IssueTransaction(connectionId, client_id, encryptedSecrets, config, authCode, code_challenge, code_challenge_method) ==
    /\ connections' = connections \cup
           {[id |-> connectionId, clientId |-> client_id,
             encryptedSecrets |-> encryptedSecrets, config |-> config]}
    /\ authCodes' = authCodes \cup
           {[codeHash |-> sha256Hex(authCode), connectionId |-> connectionId,
             codeChallenge |-> code_challenge,
             codeChallengeMethod |-> code_challenge_method,
             expiresAt |-> now + CODE_TTL_SECONDS]}

\* what the history keeps of an issuance: the request, the rows' identities,
\* the time, and whether the response carried the code
IssuanceEvent(via, connectionId, client_id, redirect_uri, authCode, code_challenge, code_challenge_method, sent) ==
    [via |-> via, connectionId |-> connectionId, client_id |-> client_id,
     redirect_uri |-> redirect_uri, code |-> authCode, at |-> now,
     code_challenge |-> code_challenge,
     code_challenge_method |-> code_challenge_method, sent |-> sent]

\* the checks of POST /authorize that come before the client is read
PostAuthorizeEarly(client_id, redirect_uri, code_challenge, code_challenge_method, csrf_token, cookie, connectionConfig) ==
    IF \/ client_id = NoClientId \/ redirect_uri = NoUri
       \/ Falsy(code_challenge) \/ code_challenge_method = ""
    THEN [status |-> 400, error |-> "Missing required parameters"]
    ELSE IF csrf_token = "" \/ csrf_token # cookie
    THEN [status |-> 403, error |-> "Invalid CSRF token"]
    ELSE IF getPkceError(code_challenge_method) # "none"
    THEN [status |-> 400, error |-> getPkceError(code_challenge_method)]
    ELSE IF ~validateConfig(getSchema, connectionConfig).valid
    THEN [status |-> 400, error |-> "invalid config"]
    ELSE [status |-> 200, error |-> "none"]

PostAuthorize(client_id, redirect_uri, state, code_challenge, code_challenge_method, csrf_token, cookie, connectionConfig) ==
    /\ Len(issued) < MaxIssued
    /\ LET early == PostAuthorizeEarly(client_id, redirect_uri, code_challenge,
                        code_challenge_method, csrf_token, cookie, connectionConfig)
           connectionId == Len(issued) + 1
           authCode == randomToken(PrefixCode, Len(issued) + 1)
           split == splitSecrets(getSchema, connectionConfig)
       IN  IF early.status # 200
           THEN /\ lastResp' = Resp("authorize", early.status, early.error)
                /\ UNCHANGED <<connections, authCodes, issued>>
           ELSE IF ClientRows(client_id) = {}
           THEN /\ lastResp' = Resp("authorize", 400, "Invalid client_id")
                /\ UNCHANGED <<connections, authCodes, issued>>
           ELSE IF ~isRedirectAllowed(redirect_uri,
                       (CHOOSE c \in ClientRows(client_id) : TRUE).redirectUris)
           THEN /\ lastResp' = Resp("authorize", 400, "redirect URI is not allowed")
                /\ UNCHANGED <<connections, authCodes, issued>>
           ELSE /\ IssueTransaction(connectionId, client_id,
                       encryptJson(MASTER_KEY, split.secretConfig),
                       split.publicConfig, authCode, code_challenge,
                       code_challenge_method)
                /\ issued' = Append(issued, IssuanceEvent("authorize", connectionId,
                                        client_id, redirect_uri, authCode,
                                        code_challenge, code_challenge_method, TRUE))
                /\ lastResp' = [Resp("authorize", 200, "none") EXCEPT
                                    !.uri = redirect_uri, !.code = authCode,
                                    !.state = SearchParamState(state),
                                    !.client_id = client_id]
    /\ UNCHANGED <<limiter, REDIRECT_URI_ALLOWLIST, API_KEY_MODE, clients, sessions,
                   userConfigs, apiKeys, credentials, now, ticks, reqs,
                   granted, call, ret>>

\* the synthetic config of a connection made by the upstream callback
OAuthConnectionConfig(email) ==
    [apiKey |-> JsString("managed-by-oauth"), userEmail |-> JsString(email),
     scopes |-> JsString("google-workspace")]

isPortalLogin_ClientOnly(client_id, redirect_uri) == client_id = NoClientId

\* const isPortalLogin = !client_id || !redirect_uri
isPortalLogin(client_id, redirect_uri) ==
    client_id = NoClientId \/ redirect_uri = NoUri

\* GET /auth/google/callback.  hasParams: code and state are in the query;
\* mcpParams: what the state decodes to (FALSE when it does not decode);
\* oauthConfigured: the Google client id and secret are known;
\* upstream: how the exchange with Google went; email: the identity, or "".
GoogleCallback(hasParams, decodes, mcpParams, oauthConfigured, upstream, email) ==
    /\ Len(issued) < MaxIssued
    /\ LET client_id == mcpParams.client_id
           redirect_uri == mcpParams.redirect_uri
           connectionId == Len(issued) + 1
           authCode == randomToken(PrefixCode, Len(issued) + 1)
       IN  IF ~hasParams
           THEN /\ lastResp' = Resp("callback", 400, "Invalid callback parameters")
                /\ UNCHANGED <<connections, authCodes, issued, credentials>>
           ELSE IF ~decodes
           THEN /\ lastResp' = Resp("callback", 500, "Authentication failed")
                /\ UNCHANGED <<connections, authCodes, issued, credentials>>
           ELSE IF ~oauthConfigured
           THEN /\ lastResp' = Resp("callback", 500, "OAuth configuration missing")
                /\ UNCHANGED <<connections, authCodes, issued, credentials>>
           ELSE IF upstream = "exchange_failed"
           THEN /\ lastResp' = Resp("callback", 500, "Authentication failed")
                /\ UNCHANGED <<connections, authCodes, issued, credentials>>
           ELSE IF email = ""
           THEN /\ lastResp' = Resp("callback", 500, "Failed to get user email")
                /\ UNCHANGED <<connections, authCodes, issued, credentials>>
           ELSE /\ credentials' = credentials \cup {email}
                /\ IF isPortalLogin(client_id, redirect_uri)
                   THEN /\ lastResp' = Resp("callback", 302, "none")
                        /\ UNCHANGED <<connections, authCodes, issued>>
                   ELSE IF IssueTransactionThrows(client_id, mcpParams.code_challenge,
                               mcpParams.code_challenge_method)
                   THEN /\ lastResp' = Resp("callback", 500, "Authentication failed")
                        /\ UNCHANGED <<connections, authCodes, issued>>
                   ELSE /\ IssueTransaction(connectionId, client_id,
                               encryptJson(MASTER_KEY, EmptyPayload),
                               OAuthConnectionConfig(email), authCode,
                               mcpParams.code_challenge,
                               mcpParams.code_challenge_method)
                        /\ IF ~UrlParses(redirect_uri)
                           THEN \* new URL(redirect_uri) throws after the commit
                                /\ issued' = Append(issued,
                                       IssuanceEvent("callback", connectionId,
                                           client_id, redirect_uri, authCode,
                                           mcpParams.code_challenge,
                                           mcpParams.code_challenge_method, FALSE))
                                /\ lastResp' = Resp("callback", 500,
                                                    "Authentication failed")
                           ELSE /\ issued' = Append(issued,
                                       IssuanceEvent("callback", connectionId,
                                           client_id, redirect_uri, authCode,
                                           mcpParams.code_challenge,
                                           mcpParams.code_challenge_method, TRUE))
                                /\ lastResp' = [Resp("callback", 302, "none") EXCEPT
                                       !.uri = redirect_uri, !.code = authCode,
                                       !.state = SearchParamState(mcpParams.state),
                                       !.client_id = client_id]
    /\ UNCHANGED <<limiter, REDIRECT_URI_ALLOWLIST, API_KEY_MODE, clients, sessions,
                   userConfigs, apiKeys, now, ticks, reqs, granted, call,
                   ret>>

\* GET /authorize
GetAuthorize(client_id, redirect_uri, code_challenge_method) ==
    /\ lastResp' =
         IF client_id = NoClientId \/ redirect_uri = NoUri
         THEN Resp("get_authorize", 302, "none")
         ELSE IF getPkceError(code_challenge_method) # "none"
         THEN Resp("get_authorize", 400, getPkceError(code_challenge_method))
         ELSE IF ClientRows(client_id) = {}
         THEN Resp("get_authorize", 400, "Invalid client_id")
         ELSE IF ~isRedirectAllowed(redirect_uri,
                     (CHOOSE c \in ClientRows(client_id) : TRUE).redirectUris)
         THEN Resp("get_authorize", 403, "Redirect URI Not Allowed")
         ELSE [Resp("get_authorize", 200, "none") EXCEPT !.uri = redirect_uri,
                                                          !.client_id = client_id]
    /\ UNCHANGED <<limiter, REDIRECT_URI_ALLOWLIST, API_KEY_MODE, clients, connections,
                   authCodes, sessions, userConfigs, apiKeys, credentials,
                   now, ticks, reqs, issued, granted, call, ret>>

\* a member of req.query or of the decoded state that is not there
AbsentMember ==
    [client_id |-> NoClientId, redirect_uri |-> NoUri, state |-> JsUndefined,
     code_challenge |-> Undefined, code_challenge_method |-> ""]

\* base64url(JSON.stringify(req.query)): the members of the query that are
\* there, as text the upstream provider hands back as it is
EncodeState(query) ==
    [k \in {m \in DOMAIN query : query[m] # AbsentMember[m]} |-> query[k]]

\* JSON.parse(Buffer.from(state, 'base64url')) and the destructuring of its
\* members
DecodeState(encoded) ==
    [k \in DOMAIN AbsentMember |->
        IF k \in DOMAIN encoded THEN encoded[k] ELSE AbsentMember[k]]

\* GET /auth/google: the query goes into the state of the upstream request
\* as it came; the response records what that state carries
AuthGoogle(oauthConfigured, query) ==
    /\ lastResp' =
         IF ~oauthConfigured
         THEN Resp("auth_google", 302, "server_not_configured")
         ELSE [Resp("auth_google", 302, "none") EXCEPT
                  !.uri = query.redirect_uri, !.client_id = query.client_id,
                  !.state = query.state,
                  !.googleState = EncodeState(query)]
    /\ UNCHANGED <<limiter, REDIRECT_URI_ALLOWLIST, API_KEY_MODE, clients, connections,
                   authCodes, sessions, userConfigs, apiKeys, credentials,
                   now, ticks, reqs, issued, granted, call, ret>>

----------------------------------------------------------------------------
(* POST /token.  The handler runs in three steps, one between each two     *)
(* awaits that read or write the tables: TokenBegin (the parameters, the   *)
(* client and its redirect URI), TokenRedeem (the transaction), and        *)
(* TokenFinish (the connection, PKCE, the response).  Another request or    *)
(* the CLI may run between two steps.  A request that has answered keeps   *)
(* its response: pc = "done", with status, error and, on success, token.   *)

NoRow == [connectionId |-> 0, codeChallenge |-> Undefined, codeChallengeMethod |-> ""]

Request(code, client_id, redirect_uri, code_verifier) ==
    [code |-> code, client_id |-> client_id, redirect_uri |-> redirect_uri,
     code_verifier |-> code_verifier, pc |-> "begin", row |-> NoRow,
     now |-> Null, token |-> Undefined, status |-> 0, error |-> "none",
     token_type |-> "", expires_in |-> 0]

Answer(r, status, error) ==
    [r EXCEPT !.pc = "done", !.status = status, !.error = error, !.row = NoRow]

TokenBeginOutcome(code, client_id, redirect_uri, code_verifier) ==
    LET r == Request(code, client_id, redirect_uri, code_verifier)
    IN  IF \/ Falsy(code) \/ client_id = NoClientId
           \/ redirect_uri = NoUri \/ Falsy(code_verifier)
        THEN Answer(r, 400, "Missing required parameters")
        ELSE IF ClientRows(client_id) = {}
        THEN Answer(r, 400, "Invalid client_id")
        ELSE IF ~isRedirectAllowed(redirect_uri,
                    (CHOOSE c \in ClientRows(client_id) : TRUE).redirectUris)
        THEN Answer(r, 400, "redirect URI is not allowed")
        ELSE [r EXCEPT !.pc = "checked"]

TokenBegin_DeletesFirst(code, client_id, redirect_uri, code_verifier) ==
    /\ Len(reqs) < MaxTokenCalls
    /\ reqs' = Append(reqs, TokenBeginOutcome(code, client_id, redirect_uri,
                                               code_verifier))
    /\ authCodes' = authCodes \ {a \in authCodes : a.codeHash = sha256Hex(code)}
    /\ UNCHANGED <<limiter, REDIRECT_URI_ALLOWLIST, API_KEY_MODE, clients, connections,
                   sessions, userConfigs, apiKeys, credentials,
                   now, ticks, issued, granted, lastResp, call, ret>>

TokenBegin(code, client_id, redirect_uri, code_verifier) ==
    /\ Len(reqs) < MaxTokenCalls
    /\ reqs' = Append(reqs, TokenBeginOutcome(code, client_id, redirect_uri,
                                               code_verifier))
    /\ UNCHANGED <<limiter, REDIRECT_URI_ALLOWLIST, API_KEY_MODE, clients, connections,
                   authCodes, sessions, userConfigs, apiKeys, credentials,
                   now, ticks, issued, granted, lastResp, call, ret>>

MatchingCodes_ExpiryIncluded(codeHash, at) ==
    {a \in authCodes : a.codeHash = codeHash /\ a.expiresAt >= at}

\* where(and(eq(authCodes.codeHash, codeHash), gt(authCodes.expiresAt, now)))
MatchingCodes(codeHash, at) ==
    {a \in authCodes : a.codeHash = codeHash /\ a.expiresAt > at}

AuthCodesAfterDelete_NoDelete(codeHash, at) == authCodes

AuthCodesAfterDelete_DeleteExpired(codeHash, at) ==
    authCodes \ {a \in authCodes : a.codeHash = codeHash /\ a.expiresAt < at}

\* tx.delete(authCodes).where(...): the table without the matching rows
AuthCodesAfterDelete(codeHash, at) == authCodes \ MatchingCodes(codeHash, at)

SessionExpiry_CodeTtl(at) == at + CODE_TTL_SECONDS

\* new Date(Date.now() + config.TOKEN_TTL_SECONDS * 1000)
SessionExpiry(at) == at + TOKEN_TTL_SECONDS

TokenRedeem_DeleteOnly(i) ==
    /\ i \in 1..Len(reqs)
    /\ reqs[i].pc = "checked"
    /\ LET r == reqs[i]
           codeHash == sha256Hex(r.code)
           token == randomToken(PrefixToken, i)
           rows == MatchingCodes(codeHash, now)
       IN  IF rows = {}
           THEN /\ reqs' = [reqs EXCEPT ![i] =
                               Answer([r EXCEPT !.now = now], 400,
                                      "Invalid or expired code")]
                /\ UNCHANGED <<authCodes, sessions>>
           ELSE LET row == CHOOSE a \in rows : TRUE
                IN  /\ authCodes' = AuthCodesAfterDelete(codeHash, now)
                    /\ UNCHANGED sessions
                    /\ reqs' = [reqs EXCEPT ![i] =
                           [r EXCEPT !.pc = "redeemed", !.token = token, !.now = now,
                               !.row = [connectionId |-> row.connectionId,
                                        codeChallenge |-> row.codeChallenge,
                                        codeChallengeMethod |-> row.codeChallengeMethod]]]
    /\ UNCHANGED <<limiter, REDIRECT_URI_ALLOWLIST, API_KEY_MODE, clients, connections,
                   userConfigs, apiKeys, credentials, now, ticks, issued,
                   granted, lastResp, call, ret>>

\* the transaction of POST /token: select the code, delete it, insert the session
TokenRedeem(i) ==
    /\ i \in 1..Len(reqs)
    /\ reqs[i].pc = "checked"
    /\ LET r == reqs[i]
           codeHash == sha256Hex(r.code)
           token == randomToken(PrefixToken, i)
           rows == MatchingCodes(codeHash, now)
       IN  IF rows = {}
           THEN /\ reqs' = [reqs EXCEPT ![i] =
                               Answer([r EXCEPT !.now = now], 400,
                                      "Invalid or expired code")]
                /\ UNCHANGED <<authCodes, sessions>>
           ELSE LET row == CHOOSE a \in rows : TRUE
                IN  /\ authCodes' = AuthCodesAfterDelete(codeHash, now)
                    /\ sessions' = sessions \cup
                           {[id |-> i, tokenHash |-> sha256Hex(token),
                             connectionId |-> row.connectionId,
                             expiresAt |-> SessionExpiry(now)]}
                    /\ reqs' = [reqs EXCEPT ![i] =
                           [r EXCEPT !.pc = "redeemed", !.token = token, !.now = now,
                               !.row = [connectionId |-> row.connectionId,
                                        codeChallenge |-> row.codeChallenge,
                                        codeChallengeMethod |-> row.codeChallengeMethod]]]
    /\ UNCHANGED <<limiter, REDIRECT_URI_ALLOWLIST, API_KEY_MODE, clients, connections,
                   userConfigs, apiKeys, credentials, now, ticks, issued,
                   granted, lastResp, call, ret>>

ConnectionBelongsTo_AnyClient(connectionId, client_id) ==
    ConnectionRows(connectionId) # {}

\* connectionRow && connectionRow.clientId === client_id
ConnectionBelongsTo(connectionId, client_id) ==
    /\ ConnectionRows(connectionId) # {}
    /\ (CHOOSE c \in ConnectionRows(connectionId) : TRUE).clientId = client_id

TokenFinishOutcome(r) ==
    IF ~ConnectionBelongsTo(r.row.connectionId, r.client_id)
        THEN Answer(r, 400, "Invalid client for code")
        ELSE IF ~verifyPkce(r.row.codeChallengeMethod, r.row.codeChallenge,
                            r.code_verifier)
        THEN Answer(r, 400, "Invalid code_verifier")
        ELSE [Answer(r, 200, "none") EXCEPT !.token_type = "Bearer",
                                           !.expires_in = TOKEN_TTL_SECONDS]

TokenFinish_RestoresCode(i) ==
    /\ i \in 1..Len(reqs)
    /\ reqs[i].pc = "redeemed"
    /\ LET r == TokenFinishOutcome(reqs[i])
           e == issued[CHOOSE k \in 1..Len(issued) : issued[k].code = reqs[i].code]
       IN  /\ reqs' = [reqs EXCEPT ![i] = r]
           /\ granted' = IF r.status = 200
                         THEN granted \cup
                                {[code |-> r.code, token |-> r.token, call |-> i,
                                  connectionId |-> reqs[i].row.connectionId]}
                         ELSE granted
           /\ authCodes' = IF r.status = 200
                           THEN authCodes
                           ELSE authCodes \cup
                                  {[codeHash |-> sha256Hex(r.code),
                                    connectionId |-> reqs[i].row.connectionId,
                                    codeChallenge |-> reqs[i].row.codeChallenge,
                                    codeChallengeMethod |->
                                        reqs[i].row.codeChallengeMethod,
                                    expiresAt |-> e.at + CODE_TTL_SECONDS]}
    /\ UNCHANGED <<limiter, REDIRECT_URI_ALLOWLIST, API_KEY_MODE, clients, connections,
                   sessions, userConfigs, apiKeys, credentials,
                   now, ticks, issued, lastResp, call, ret>>

TokenFinish(i) ==
    /\ i \in 1..Len(reqs)
    /\ reqs[i].pc = "redeemed"
    /\ LET r == TokenFinishOutcome(reqs[i])
       IN  /\ reqs' = [reqs EXCEPT ![i] = r]
           /\ granted' = IF r.status = 200
                         THEN granted \cup
                                {[code |-> r.code, token |-> r.token, call |-> i,
                                  connectionId |-> reqs[i].row.connectionId]}
                         ELSE granted
    /\ UNCHANGED <<limiter, REDIRECT_URI_ALLOWLIST, API_KEY_MODE, clients, connections,
                   authCodes, sessions, userConfigs, apiKeys, credentials,
                   now, ticks, issued, lastResp, call, ret>>

----------------------------------------------------------------------------
(* The clock, the operator and the CLI *)

TickSeconds == 45

Tick ==
    /\ ticks < MaxTicks
    /\ ticks' = ticks + 1
    /\ now' = now + TickSeconds
    /\ UNCHANGED <<limiter, REDIRECT_URI_ALLOWLIST, API_KEY_MODE, clients, connections,
                   authCodes, sessions, userConfigs, apiKeys, credentials,
                   reqs, issued, granted, lastResp, call, ret>>

\* the clock runs on to one Tick short of a session's lifetime
TickLong ==
    /\ ticks < MaxTicks
    /\ ticks' = ticks + 1
    /\ now' = now + (TOKEN_TTL_SECONDS - TickSeconds)
    /\ UNCHANGED <<limiter, REDIRECT_URI_ALLOWLIST, API_KEY_MODE, clients, connections,
                   authCodes, sessions, userConfigs, apiKeys, credentials,
                   reqs, issued, granted, lastResp, call, ret>>

\* The operator restarts the server with another REDIRECT_URI_ALLOWLIST; no
\* request is in progress across a restart, and no response is its latest.
Reconfigure(setting) ==
    /\ setting # REDIRECT_URI_ALLOWLIST
    /\ \A i \in 1..Len(reqs) : reqs[i].pc = "done"
    /\ REDIRECT_URI_ALLOWLIST' = setting
    /\ lastResp' = Resp("restart", 0, "none")
    /\ UNCHANGED <<limiter, API_KEY_MODE, clients, connections, authCodes, sessions,
                   userConfigs, apiKeys, credentials, now, ticks, reqs,
                   issued, granted, call, ret>>

\* cli: connections delete <id>
deleteConnection(id) ==
    /\ DeleteConnectionCascade(id)
    /\ UNCHANGED <<limiter, REDIRECT_URI_ALLOWLIST, API_KEY_MODE, clients, userConfigs,
                   apiKeys, credentials, now, ticks, reqs, issued, granted,
                   lastResp, call, ret>>

----------------------------------------------------------------------------
(* Static API keys: POST /api/api-keys, the CLI's revoke, and the guard of *)
(* /mcp.                                                                   *)

apiKeyModeEnabled == API_KEY_MODE = "user_bound"


IssueApiKey(body, cookie) ==
    /\ Cardinality(userConfigs) < MaxKeys
    /\ LET csrf_token == Get(body, "csrf_token")
           n == Cardinality(userConfigs) + 1
           apiKey == randomToken(PrefixKey, n)
       IN  IF ~apiKeyModeEnabled
           THEN /\ lastResp' = Resp("api_keys", 404, "Not found")
                /\ UNCHANGED <<userConfigs, apiKeys>>
           ELSE IF JsFalsy(csrf_token) \/ csrf_token # cookie
           THEN /\ lastResp' = Resp("api_keys", 403, "Invalid CSRF token")
                /\ UNCHANGED <<userConfigs, apiKeys>>
           ELSE IF ~validateConfig(getSchema, body).valid
           THEN /\ lastResp' = Resp("api_keys", 400, "invalid config")
                /\ UNCHANGED <<userConfigs, apiKeys>>
           ELSE /\ userConfigs' = userConfigs \cup
                       {[id |-> n, configEnc |-> encryptJson(MASTER_KEY, body),
                         createdAt |-> now]}
                /\ apiKeys' = apiKeys \cup
                       {[id |-> n, userConfigId |-> n, keyHash |-> sha256Hex(apiKey),
                         revokedAt |-> Null, createdAt |-> now]}
                /\ lastResp' = [Resp("api_keys", 200, "none") EXCEPT !.token = apiKey]
    /\ UNCHANGED <<limiter, REDIRECT_URI_ALLOWLIST, API_KEY_MODE, clients, connections,
                   authCodes, sessions, credentials, now, ticks, reqs, issued,
                   granted, call, ret>>

RevokedRows_AnyRow(id) ==
    {IF k.id = id THEN [k EXCEPT !.revokedAt = now] ELSE k : k \in apiKeys}

\* update(apiKeys).set({ revokedAt: new Date() })
\*     .where(and(eq(apiKeys.id, id), isNull(apiKeys.revokedAt)))
RevokedRows(id) ==
    {IF k.id = id /\ k.revokedAt = Null
     THEN [k EXCEPT !.revokedAt = now] ELSE k : k \in apiKeys}

\* cli: api-keys revoke <id>; call keeps the command and its time
revokeApiKey(id) ==
    /\ apiKeys' = RevokedRows(id)
    /\ call' = [fn |-> "revoke", id |-> id, at |-> now]
    /\ UNCHANGED <<limiter, REDIRECT_URI_ALLOWLIST, API_KEY_MODE, clients, connections,
                   authCodes, sessions, userConfigs, credentials, now, ticks,
                   reqs, issued, granted, lastResp, ret>>

\* the credential a request presents: Authorization, x-api-key, ?apiKey
Presented(authorization, xApiKey, queryApiKey) ==
    IF authorization.bearer THEN authorization.value
    ELSE IF ~Falsy(xApiKey) THEN xApiKey
    ELSE IF ~Falsy(queryApiKey) THEN queryApiKey
    ELSE <<>>

SessionMatches_ExpiryIncluded(tokenHash) ==
    {<<x, c>> \in sessions \X connections :
        x.connectionId = c.id /\ x.tokenHash = tokenHash /\ x.expiresAt >= now}

SessionMatches_AnyConnection(tokenHash) ==
    {<<x, c>> \in sessions \X connections :
        x.tokenHash = tokenHash /\ x.expiresAt > now}

\* sessions joined with connections, for an unexpired session of the token
SessionMatches(tokenHash) ==
    {<<x, c>> \in sessions \X connections :
        x.connectionId = c.id /\ x.tokenHash = tokenHash /\ x.expiresAt > now}

\* api_keys joined with user_configs, for the key
ApiKeyMatches(tokenHash) ==
    {<<k, u>> \in apiKeys \X userConfigs :
        k.userConfigId = u.id /\ k.keyHash = tokenHash}

authMiddlewareOutcome_RequiresCredential(token) ==
    LET tokenHash == sha256Hex(token)
    IN  IF token # <<>> /\ SessionMatches(tokenHash) # {}
        THEN LET m == CHOOSE m \in SessionMatches(tokenHash) : TRUE
             IN  [Resp("mcp", 200, "none") EXCEPT
                     !.auth = [kind |-> "session", clientId |-> m[2].clientId,
                               config |-> m[2].config]]
        ELSE IF token # <<>> /\ ApiKeyMatches(tokenHash) # {}
        THEN LET m == CHOOSE m \in ApiKeyMatches(tokenHash) : TRUE
                 decrypted == decryptJson(MASTER_KEY, m[2].configEnc)
             IN  IF decrypted.threw
                 THEN Resp("mcp", 500, "Internal server error")
                 ELSE [Resp("mcp", 200, "none") EXCEPT
                         !.auth = [kind |-> "apiKey",
                                   clientId |-> UserBoundClient,
                                   config |-> decrypted.payload]]
        ELSE Resp("mcp", 401, "Unauthorized")

authMiddlewareOutcome(token) ==
    IF token = <<>> THEN Resp("mcp", 200, "none")
    ELSE LET tokenHash == sha256Hex(token)
         IN  IF SessionMatches(tokenHash) # {}
             THEN LET m == CHOOSE m \in SessionMatches(tokenHash) : TRUE
                  IN  [Resp("mcp", 200, "none") EXCEPT
                          !.auth = [kind |-> "session", clientId |-> m[2].clientId,
                                    config |-> m[2].config]]
             ELSE IF ApiKeyMatches(tokenHash) # {}
             THEN LET m == CHOOSE m \in ApiKeyMatches(tokenHash) : TRUE
                      decrypted == decryptJson(MASTER_KEY, m[2].configEnc)
                  IN  IF decrypted.threw
                      THEN Resp("mcp", 500, "Internal server error")
                      ELSE [Resp("mcp", 200, "none") EXCEPT
                              !.auth = [kind |-> "apiKey",
                                        clientId |-> UserBoundClient,
                                        config |-> decrypted.payload]]
             ELSE Resp("mcp", 401, "Unauthorized")

\* app.all('/mcp', authMiddleware, ...): the response records the credential
\* that was presented (token) and what the guard attached (auth)
authMiddleware(authorization, xApiKey, queryApiKey) ==
    /\ LET token == Presented(authorization, xApiKey, queryApiKey)
       IN  lastResp' = [authMiddlewareOutcome(token) EXCEPT !.token = token]
    /\ UNCHANGED <<limiter, REDIRECT_URI_ALLOWLIST, API_KEY_MODE, clients, connections,
                   authCodes, sessions, userConfigs, apiKeys, credentials,
                   now, ticks, reqs, issued, granted, call, ret>>

----------------------------------------------------------------------------
(* Inputs of the handlers. *)

VerifierA == <<3, 5>>
VerifierB == <<4, 1>>
ChallengeA == base64url(Sha256(VerifierA))
\* the challenge of VerifierA in standard base64, with its padding
PaddedChallengeA == ToBase64(Sha256(VerifierA))

AuthorizeBase ==
    [client_id |-> 1, redirect_uri |-> GoodUri, state |-> JsString("xyz"),
     code_challenge |-> ChallengeA, code_challenge_method |-> "S256",
     csrf_token |-> "t1", cookie |-> "t1", config |-> ValidPayload]

DoPostAuthorize(q) ==
    PostAuthorize(q.client_id, q.redirect_uri, q.state, q.code_challenge,
                  q.code_challenge_method, q.csrf_token, q.cookie, q.config)

TokenInput(code, client_id, redirect_uri, code_verifier) ==
    [code |-> code, client_id |-> client_id, redirect_uri |-> redirect_uri,
     code_verifier |-> code_verifier]

DoTokenBegin(q) == TokenBegin(q.code, q.client_id, q.redirect_uri, q.code_verifier)

----------------------------------------------------------------------------
(* The rate limiters (express-rate-limit): one store for each limiter,     *)
(* keyed by the client's IP, with the hits of the current window and the   *)
(* time the window ends.  The quotas are scaled down; the windows are the  *)
(* source's.                                                               *)

RegisterMax == 1        \* max: 10
ApiKeyMax == 1          \* max: 3
ConnectMax == 2         \* max: 20
TokenMax == 2           \* max: 20
WindowSeconds == 60
ApiKeyWindowSeconds == 3600

Limiters == {"connectLimiter", "tokenLimiter", "registerLimiter", "apiKeyLimiter"}

Ips == {"ip1", "ip2"}

LimiterMax(l) ==
    CASE l = "connectLimiter" -> ConnectMax
      [] l = "tokenLimiter" -> TokenMax
      [] l = "registerLimiter" -> RegisterMax
      [] l = "apiKeyLimiter" -> ApiKeyMax

LimiterWindow(l) ==
    IF l = "apiKeyLimiter" THEN ApiKeyWindowSeconds ELSE WindowSeconds

Routes ==
    {"POST /api/api-keys", "GET /auth/google/callback", "POST /register",
     "GET /authorize", "POST /authorize", "POST /token"}

\* the limiter that the route is declared with
RouteLimiter(route) ==
    CASE route = "POST /api/api-keys" -> "apiKeyLimiter"
      [] route = "POST /register" -> "registerLimiter"
      [] route = "POST /authorize" -> "connectLimiter"
      [] route = "POST /token" -> "tokenLimiter"
      [] OTHER -> "none"

NoHits == [l \in Limiters |-> [ip \in Ips |-> [hits |-> 0, resetTime |-> 0]]]

\* the store's increment(key): a new window on the first hit and on the
\* first hit after the window's end
Increment(entry, window) ==
    IF entry.hits = 0 \/ now >= entry.resetTime
    THEN [hits |-> 1, resetTime |-> now + window]
    ELSE [entry EXCEPT !.hits = entry.hits + 1]

\* a request of the IP arrives at the route: its limiter, if it has one,
\* counts it, and answers 429 or calls next(), the handler
Arrive(route, ip) ==
    /\ LET l == RouteLimiter(route)
       IN  IF l = "none"
           THEN /\ lastResp' = Resp(route, 0, "none")
                /\ UNCHANGED limiter
           ELSE LET entry == Increment(limiter[l][ip], LimiterWindow(l))
                IN  /\ limiter[l][ip].hits <= LimiterMax(l)
                    /\ limiter' = [limiter EXCEPT ![l][ip] = entry]
                    /\ lastResp' = IF entry.hits > LimiterMax(l)
                                   THEN Resp(route, 429, "Too many requests")
                                   ELSE Resp(route, 0, "none")
    /\ UNCHANGED <<REDIRECT_URI_ALLOWLIST, API_KEY_MODE, clients, connections,
                   authCodes, sessions, userConfigs, apiKeys, credentials,
                   now, ticks, reqs, issued, granted, call, ret>>

InitTables ==
    /\ limiter = NoHits
    /\ clients = {}
    /\ connections = {}
    /\ authCodes = {}
    /\ sessions = {}
    /\ userConfigs = {}
    /\ apiKeys = {}
    /\ credentials = {}
    /\ now = 0
    /\ ticks = 0
    /\ reqs = <<>>
    /\ issued = <<>>
    /\ granted = {}
    /\ lastResp = Resp("none", 0, "none")

NoCall == [fn |-> "none"]
NoRet == [done |-> FALSE, value |-> FALSE]

----------------------------------------------------------------------------
(* SpecToken: clients register, codes are issued by POST /authorize, and   *)
(* POST /token requests run concurrently while the clock advances.         *)

TokenRegistrations == {JsonArray(<<GoodUri>>)}

TokenAuthorizations ==
    {[AuthorizeBase EXCEPT !.code_challenge_method = m[1], !.code_challenge = m[2]] :
        m \in {<<"S256", ChallengeA>>, <<"plain", VerifierA>>,
               <<"S256", PaddedChallengeA>>}}
    \cup {[AuthorizeBase EXCEPT !.client_id = 2]}

Code1 == randomToken(PrefixCode, 1)
Code2 == randomToken(PrefixCode, 2)
BogusCode == randomToken(PrefixCode, 0)

TokenInputs ==
    {TokenInput(Code1, c, GoodUri, v) : c \in {1, 2}, v \in {VerifierA, VerifierB}}
    \cup {TokenInput(Code2, 1, GoodUri, VerifierA),
          TokenInput(BogusCode, 1, GoodUri, VerifierA),
          TokenInput(Code1, 3, GoodUri, VerifierA),
          TokenInput(Code1, 1, EvilUri, VerifierA)}

\* a caller presents a code a response has carried, or one of its own making
\* (randomToken's values are not guessed)
PresentableCode(code) ==
    \/ code = BogusCode
    \/ \E k \in 1..Len(issued) : issued[k].code = code /\ issued[k].sent

InitToken ==
    /\ REDIRECT_URI_ALLOWLIST = AllowG
    /\ API_KEY_MODE = "user_bound"
    /\ InitTables
    /\ call = NoCall
    /\ ret = NoRet

NextToken ==
    \/ \E r \in TokenRegistrations : Register(r)
    \/ \E q \in TokenAuthorizations : DoPostAuthorize(q)
    \/ \E q \in TokenInputs : PresentableCode(q.code) /\ DoTokenBegin(q)
    \/ \E i \in 1..MaxTokenCalls : TokenRedeem(i)
    \/ \E i \in 1..MaxTokenCalls : TokenFinish(i)
    \/ Tick

SpecToken == InitToken /\ [][NextToken]_vars

----------------------------------------------------------------------------
(* Properties of POST /token *)

Done(i) == reqs[i].pc = "done"
Succeeded(i) == reqs[i].pc = "done" /\ reqs[i].status = 200

\* the number a text over an alphabet of the given size denotes
RECURSIVE NumberOf(_, _)
NumberOf(digits, base) ==
    IF digits = <<>> THEN 0
    ELSE NumberOf(SubSeq(digits, 1, Len(digits) - 1), base) * base
         + digits[Len(digits)]

RECURSIVE Pow2(_)
Pow2(n) == IF n = 0 THEN 1 ELSE 2 * Pow2(n - 1)

\* text is the unpadded base64url form of bytes (RFC 4648, section 5): its
\* characters are of the URL alphabet and spell the bits of the bytes,
\* filled with zero bits to a multiple of six
IsBase64urlOf(text, bytes) ==
    /\ \A i \in 1..Len(text) : text[i] \in (0..61) \cup {CharMinus, CharUnderscore}
    /\ 6 * Len(text) - 8 * Len(bytes) \in {0, 2, 4}
    /\ NumberOf([i \in 1..Len(text) |->
                    IF text[i] = CharMinus THEN 62
                    ELSE IF text[i] = CharUnderscore THEN 63 ELSE text[i]], 64)
         = NumberOf(bytes, 256) * Pow2(6 * Len(text) - 8 * Len(bytes))

\* the verifier answers the challenge of an issuance
AnswersChallenge(e, verifier) ==
    \/ e.code_challenge_method = "plain" /\ verifier = e.code_challenge
    \/ e.code_challenge_method = "S256"
         /\ IsBase64urlOf(e.code_challenge, Sha256(verifier))

\* request i names the client of the issuance and answers its challenge
CorrectFor(i, e) ==
    /\ reqs[i].client_id = e.client_id
    /\ AnswersChallenge(e, reqs[i].code_verifier)

\* C1: at most one POST /token returns an access token for a code: once a
\* request has succeeded, the code's row is gone and every other answered
\* request for the same code has failed with status 400.
C1_RedeemedAtMostOnce ==
    \A i \in 1..Len(reqs) :
        Succeeded(i) =>
            /\ MatchingCodes(sha256Hex(reqs[i].code), 0) = {}
            /\ \A j \in 1..Len(reqs) :
                   (j # i /\ Done(j) /\ reqs[j].code = reqs[i].code) =>
                       reqs[j].status = 400

\* a code was redeemed, and the same request repeated was refused
C1_Witness ==
    \E i, j \in 1..Len(reqs) :
        /\ i < j
        /\ Succeeded(i)
        /\ Done(j)
        /\ reqs[j].code = reqs[i].code
        /\ reqs[j].client_id = reqs[i].client_id
        /\ reqs[j].redirect_uri = reqs[i].redirect_uri
        /\ reqs[j].code_verifier = reqs[i].code_verifier
        /\ reqs[j].status = 400
        /\ reqs[j].error = "Invalid or expired code"

\* two requests for one code have both run their transaction before the code
\* expired
BothRedeemedInTime(i, j, e) ==
    /\ i # j
    /\ reqs[i].code = e.code /\ reqs[j].code = e.code
    /\ reqs[i].now # Null /\ reqs[j].now # Null
    /\ reqs[i].now < e.at + CODE_TTL_SECONDS
    /\ reqs[j].now < e.at + CODE_TTL_SECONDS

\* no request other than i and j has taken the row of the code
NoOtherTook(i, j, e) ==
    \A m \in 1..Len(reqs) :
        (m # i /\ m # j /\ reqs[m].code = e.code) => reqs[m].token = Undefined

\* C2: two POST /token requests for the same unexpired code never both hold
\* the code's row or an access token, however their steps interleave; when
\* both are correct and no third request has taken the row, one of them has
\* it as soon as both have run the transaction, and exactly one has succeeded
\* once both have answered.
C2_ConcurrentRedemption ==
    \A k \in 1..Len(issued) : \A i, j \in 1..Len(reqs) :
        BothRedeemedInTime(i, j, issued[k]) =>
            /\ ~(reqs[i].token # Undefined /\ reqs[j].token # Undefined)
            /\ (/\ CorrectFor(i, issued[k]) /\ CorrectFor(j, issued[k])
                /\ NoOtherTook(i, j, issued[k])) =>
                   /\ reqs[i].token # Undefined \/ reqs[j].token # Undefined
                   /\ (Done(i) /\ Done(j)) => (Succeeded(i) # Succeeded(j))

\* two correct requests were in flight together: one has answered that the
\* code is invalid while the other, which took the row, has not yet answered
C2_Witness ==
    \E k \in 1..Len(issued) : \E i, j \in 1..Len(reqs) :
        /\ BothRedeemedInTime(i, j, issued[k])
        /\ CorrectFor(i, issued[k]) /\ CorrectFor(j, issued[k])
        /\ i < j
        /\ reqs[i].pc = "done" /\ reqs[i].status = 400
        /\ reqs[j].pc = "redeemed"

\* C3: an access token is returned only by a transaction that ran before the
\* code's expiry, issuance time + CODE_TTL_SECONDS; a request whose
\* transaction ran at or after it is refused, whatever else it carries.
C3_ExpiredCodeRejected ==
    \A k \in 1..Len(issued) : \A i \in 1..Len(reqs) :
        (reqs[i].code = issued[k].code /\ reqs[i].now # Null) =>
            /\ reqs[i].token # Undefined => reqs[i].now < issued[k].at + CODE_TTL_SECONDS
            /\ reqs[i].now >= issued[k].at + CODE_TTL_SECONDS =>
                   (reqs[i].pc = "done" /\ reqs[i].status = 400)

\* a correct request for a never redeemed code ran exactly at the expiry and
\* was refused
C3_Witness ==
    \E k \in 1..Len(issued) : \E i \in 1..Len(reqs) :
        /\ reqs[i].code = issued[k].code
        /\ CorrectFor(i, issued[k])
        /\ reqs[i].now = issued[k].at + CODE_TTL_SECONDS
        /\ reqs[i].status = 400
        /\ \A j \in 1..Len(reqs) : j # i => reqs[j].code # reqs[i].code

\* C4: an access token is returned only to a request whose code_verifier
\* answers the stored challenge: equal to it for plain, and for S256 with the
\* challenge being the unpadded base64url form of SHA-256(verifier).
C4_PkceVerified ==
    \A k \in 1..Len(issued) : \A i \in 1..Len(reqs) :
        (reqs[i].code = issued[k].code /\ Succeeded(i)) =>
            AnswersChallenge(issued[k], reqs[i].code_verifier)

\* a token was returned for an S256 challenge, and a request with a verifier
\* that does not answer its challenge was refused for that
C4_Witness ==
    /\ \E k \in 1..Len(issued) : \E i \in 1..Len(reqs) :
          /\ reqs[i].code = issued[k].code
          /\ issued[k].code_challenge_method = "S256"
          /\ Succeeded(i)
    /\ \E k \in 1..Len(issued) : \E i \in 1..Len(reqs) :
          /\ reqs[i].code = issued[k].code
          /\ ~AnswersChallenge(issued[k], reqs[i].code_verifier)
          /\ reqs[i].error = "Invalid code_verifier"

\* C5: an access token is returned only to the client of the code's
\* Connection.
C5_ClientBound ==
    \A k \in 1..Len(issued) : \A i \in 1..Len(reqs) :
        (reqs[i].code = issued[k].code /\ Succeeded(i)) =>
            reqs[i].client_id = issued[k].client_id

\* another registered client, with an allowed redirect_uri and the right
\* verifier, presented the code and was refused
C5_Witness ==
    \E k \in 1..Len(issued) : \E i \in 1..Len(reqs) :
        /\ reqs[i].code = issued[k].code
        /\ reqs[i].client_id # issued[k].client_id
        /\ ClientRows(reqs[i].client_id) # {}
        /\ AnswersChallenge(issued[k], reqs[i].code_verifier)
        /\ reqs[i].error = "Invalid client for code"

\* request i carried all four parameters, of a registered client and an
\* allowed redirect_uri, and was refused by one of the checks on the code
RefusedOnCode(i) ==
    /\ Done(i)
    /\ reqs[i].now # Null
    /\ reqs[i].status # 200

\* C11: the failing POST /token requests that reach the checks on the code
\* (unknown, expired or reused code, Connection of another client, PKCE
\* mismatch) all get the same status and the same body.
C11_GenericTokenError ==
    \A i, j \in 1..Len(reqs) :
        (RefusedOnCode(i) /\ RefusedOnCode(j)) =>
            /\ reqs[i].status = reqs[j].status
            /\ reqs[i].error = reqs[j].error

\* C12: a Session row is there only for a POST /token that has passed every
\* check: no request that has answered with an error has left one.
C12_SessionOnlyOnSuccess ==
    \A i \in 1..Len(reqs) :
        (Done(i) /\ reqs[i].status # 200) =>
            \A x \in sessions : x.tokenHash # sha256Hex(randomToken(PrefixToken, i))

\* C17: a POST /token that succeeds answers token_type "Bearer" and
\* expires_in 3600, the value of TOKEN_TTL_SECONDS, and the Session of its
\* token expires 3600 seconds after the exchange.
C17_BearerWithTtl ==
    \A i \in 1..Len(reqs) :
        Succeeded(i) =>
            /\ reqs[i].token_type = "Bearer"
            /\ reqs[i].expires_in = 3600
            /\ reqs[i].expires_in = TOKEN_TTL_SECONDS
            /\ \E x \in sessions :
                   /\ x.tokenHash = sha256Hex(reqs[i].token)
                   /\ x.expiresAt = reqs[i].now + 3600
            /\ \A x \in sessions :
                   x.tokenHash = sha256Hex(reqs[i].token) =>
                       x.expiresAt = reqs[i].now + 3600

\* a code issued after the clock had advanced was exchanged later still
C17_Witness ==
    \E i \in 1..Len(reqs) : \E k \in 1..Len(issued) :
        /\ Succeeded(i)
        /\ issued[k].code = reqs[i].code
        /\ issued[k].at > 0
        /\ reqs[i].now > issued[k].at

----------------------------------------------------------------------------
(* SpecIssue: clients register, the operator changes the allowlist, and    *)
(* codes are asked for through GET /authorize, POST /authorize and the     *)
(* upstream sign-in (GET /auth/google, then its callback).                 *)

IssueRegistrations ==
    {JsonArray(<<GoodUri>>), JsonArray(<<EvilUri>>), JsonArray(<<GoodUri, GoodUri2>>)}

IssueAllowlists == {AllowG, AllowE}

\* POST /authorize: the base request, and requests with one thing wrong
IssueAuthorizations ==
    {AuthorizeBase,
     [AuthorizeBase EXCEPT !.client_id = 2],
     [AuthorizeBase EXCEPT !.client_id = 3],
     [AuthorizeBase EXCEPT !.redirect_uri = GoodUri2],
     [AuthorizeBase EXCEPT !.redirect_uri = EvilUri],
     [AuthorizeBase EXCEPT !.redirect_uri = NoUri],
     [AuthorizeBase EXCEPT !.csrf_token = "t2"],
     [AuthorizeBase EXCEPT !.code_challenge_method = "S512"],
     [AuthorizeBase EXCEPT !.config = EmptyPayload]}

\* the parameters GET /auth/google put into the state, or a caller made up
McpParamsBase ==
    [client_id |-> 1, redirect_uri |-> GoodUri, state |-> JsString("xyz"),
     code_challenge |-> ChallengeA, code_challenge_method |-> "S256"]

McpParams ==
    {McpParamsBase,
     [McpParamsBase EXCEPT !.client_id = 3],
     [McpParamsBase EXCEPT !.client_id = NoClientId],
     [McpParamsBase EXCEPT !.redirect_uri = NoUri],
     [McpParamsBase EXCEPT !.redirect_uri = GoodUri2],
     [McpParamsBase EXCEPT !.redirect_uri = EvilUri],
     [McpParamsBase EXCEPT !.redirect_uri = NoSchemeUri],
     [McpParamsBase EXCEPT !.code_challenge = Undefined],
     [McpParamsBase EXCEPT !.code_challenge_method = "S512"]}

CallbackBase ==
    [hasParams |-> TRUE, decodes |-> TRUE, mcpParams |-> McpParamsBase,
     oauthConfigured |-> TRUE, upstream |-> "ok", email |-> "u@x"]

\* the callback: every state with the upstream exchange going well, and the
\* base state with one thing going wrong
CallbackInputs ==
    {[CallbackBase EXCEPT !.mcpParams = m] : m \in McpParams}
    \cup {[CallbackBase EXCEPT !.hasParams = FALSE],
          [CallbackBase EXCEPT !.decodes = FALSE],
          [CallbackBase EXCEPT !.oauthConfigured = FALSE],
          [CallbackBase EXCEPT !.upstream = "exchange_failed"],
          [CallbackBase EXCEPT !.email = ""]}

DoGoogleCallback(q) ==
    GoogleCallback(q.hasParams, q.decodes, q.mcpParams, q.oauthConfigured,
                   q.upstream, q.email)

GetAuthorizeInputs ==
    {McpParamsBase,
     [McpParamsBase EXCEPT !.client_id = 3],
     [McpParamsBase EXCEPT !.client_id = NoClientId],
     [McpParamsBase EXCEPT !.redirect_uri = GoodUri2],
     [McpParamsBase EXCEPT !.redirect_uri = EvilUri],
     [McpParamsBase EXCEPT !.code_challenge_method = "S512"]}

InitIssue ==
    /\ REDIRECT_URI_ALLOWLIST \in IssueAllowlists
    /\ API_KEY_MODE = "user_bound"
    /\ InitTables
    /\ call = NoCall
    /\ ret = NoRet

NextIssue ==
    \/ \E r \in IssueRegistrations : Register(r)
    \/ \E setting \in IssueAllowlists : Reconfigure(setting)
    \/ \E q \in GetAuthorizeInputs :
           GetAuthorize(q.client_id, q.redirect_uri, q.code_challenge_method)
    \/ \E q \in IssueAuthorizations : DoPostAuthorize(q)
    \/ \E c \in BOOLEAN : \E q \in {McpParamsBase,
                                    [McpParamsBase EXCEPT !.redirect_uri = EvilUri]} :
           AuthGoogle(c, q)
    \/ \E q \in CallbackInputs : DoGoogleCallback(q)

SpecIssue == InitIssue /\ [][NextIssue]_vars

\* the redirect_uri is a literal member of the redirect_uris of the client,
\* and its hostname is on the operator's allowlist
PassesDoubleCheck(client_id, redirect_uri) ==
    /\ ClientRows(client_id) # {}
    /\ \A c \in ClientRows(client_id) :
           /\ c.redirectUris.kind = "array"
           /\ \E n \in 1..Len(c.redirectUris.items) :
                  c.redirectUris.items[n] = redirect_uri
    /\ \E n \in 1..Len(getAllowlist) :
           \/ Hostname(redirect_uri) = getAllowlist[n]
           \/ EndsWith(Hostname(redirect_uri), <<".">> \o getAllowlist[n])

\* C6: GET /authorize shows its form, and POST /authorize and the upstream
\* callback send an authorization code, only for a redirect_uri that is a
\* literal member of the client's redirect_uris and whose hostname is on the
\* allowlist.
C6_RedirectDoubleCheck ==
    /\ (lastResp.op = "get_authorize" /\ lastResp.status = 200) =>
           PassesDoubleCheck(lastResp.client_id, lastResp.uri)
    /\ (lastResp.op \in {"authorize", "callback"} /\ lastResp.code # Undefined) =>
           PassesDoubleCheck(lastResp.client_id, lastResp.uri)

\* the same, of GET /authorize and POST /authorize alone
C6_AuthorizeDoubleCheck ==
    /\ (lastResp.op = "get_authorize" /\ lastResp.status = 200) =>
           PassesDoubleCheck(lastResp.client_id, lastResp.uri)
    /\ (lastResp.op = "authorize" /\ lastResp.code # Undefined) =>
           PassesDoubleCheck(lastResp.client_id, lastResp.uri)

\* C14: issuance is atomic on both paths: every AuthCode has its
\* Connection, and every Connection is of an issuance that went through: its
\* AuthCode was inserted with it and the response carried the code; no
\* Connection is left by an issuance that ended in an error.
C14_IssuanceAtomic ==
    /\ \A a \in authCodes : ConnectionRows(a.connectionId) # {}
    /\ \A c \in connections :
           /\ \E a \in authCodes : a.connectionId = c.id
           /\ \E k \in 1..Len(issued) :
                  issued[k].connectionId = c.id /\ issued[k].sent

\* the same, of the pair of rows alone
C14_PairAtomic ==
    /\ \A a \in authCodes : ConnectionRows(a.connectionId) # {}
    /\ \A c \in connections : \E a \in authCodes : a.connectionId = c.id

\* the state names a client and a redirect_uri (it is not a portal sign-in)
\* and the client is unknown or the redirect_uri fails the double check
FailsPreconditions(q) ==
    /\ q.hasParams /\ q.decodes
    /\ q.mcpParams.client_id # NoClientId
    /\ q.mcpParams.redirect_uri # NoUri
    /\ ~PassesDoubleCheck(q.mcpParams.client_id, q.mcpParams.redirect_uri)

\* C15: an upstream callback whose state names an unknown client or a
\* redirect_uri that fails the double check ends in an error, sends no code,
\* and writes nothing: no upstream credential, Connection or AuthCode.
C15_CallbackChecksFirst ==
    [][\A q \in CallbackInputs :
          (FailsPreconditions(q) /\ DoGoogleCallback(q)) =>
              /\ lastResp'.status >= 400
              /\ lastResp'.code = Undefined
              /\ UNCHANGED <<credentials, connections, authCodes>>]_vars

----------------------------------------------------------------------------
(* SpecRedirect: isRedirectAllowed applied to every URI and every value of *)
(* redirect_uris of up to MaxRedirects entries, under every setting of the *)
(* allowlist.                                                              *)

MaxRedirects == 2

RedirectLists ==
    {<<>>} \cup {<<u>> : u \in AllUris}
    \cup (IF MaxRedirects >= 2 THEN {<<u, v>> : u \in AllUris, v \in AllUris} ELSE {})
    \cup (IF MaxRedirects >= 3 THEN {<<u, v, u>> : u \in AllUris, v \in AllUris} ELSE {})

RedirectValues == {JsonObject} \cup {JsonArray(l) : l \in RedirectLists}

InitRedirect ==
    /\ REDIRECT_URI_ALLOWLIST \in AllAllowlists
    /\ API_KEY_MODE = "user_bound"
    /\ InitTables
    /\ call \in {[fn |-> "isRedirectAllowed", uri |-> u, redirects |-> r] :
                    u \in AllUris, r \in RedirectValues}
    /\ ret = NoRet

ApplyIsRedirectAllowed ==
    /\ ~ret.done
    /\ ret' = [done |-> TRUE, value |-> isRedirectAllowed(call.uri, call.redirects)]
    /\ UNCHANGED <<limiter, REDIRECT_URI_ALLOWLIST, API_KEY_MODE, clients, connections,
                   authCodes, sessions, userConfigs, apiKeys, credentials,
                   now, ticks, reqs, issued, granted, lastResp, call>>

NextRedirect == ApplyIsRedirectAllowed

SpecRedirect == InitRedirect /\ [][NextRedirect]_vars

\* the domains each setting of REDIRECT_URI_ALLOWLIST names
AllowlistDomains ==
    IF REDIRECT_URI_ALLOWLIST = AllowG THEN {<<"g", ".", "c", "o">>}
    ELSE IF REDIRECT_URI_ALLOWLIST = AllowE THEN {<<"e", ".", "i", "o">>}
    ELSE IF REDIRECT_URI_ALLOWLIST = AllowGUpperSpaced
    THEN {<<"g", ".", "c", "o">>, <<"e", ".", "i", "o">>}
    ELSE {}

\* the lower-cased hostname is a domain of the allowlist, or some text, a
\* '.', and the domain
OnAllowlist(uri) ==
    LET h == ToLowerCase(uri.host)
    IN  \E d \in AllowlistDomains :
            \/ h = d
            \/ \E k \in 0..Len(h) : h = SubSeq(h, 1, k) \o <<".">> \o d

LiteralMember(uri, redirects) ==
    /\ redirects.kind = "array"
    /\ \E n \in 1..Len(redirects.items) : redirects.items[n] = uri

\* C7: isRedirectAllowed(uri, clientRedirectSet) is true exactly when uri is
\* a literal member of clientRedirectSet, the allowlist names a domain, uri
\* parses as a URL, and its lower-cased hostname is a domain of the allowlist
\* or ends with '.' and that domain.
C7_IsRedirectAllowedExact ==
    ret.done =>
        (ret.value <=>
            /\ LiteralMember(call.uri, call.redirects)
            /\ AllowlistDomains # {}
            /\ call.uri.scheme # ""
            /\ OnAllowlist(call.uri))

\* a URI registered for the client, of a host off the allowlist, is refused
C7_Witness ==
    /\ ret.done
    /\ ~ret.value
    /\ REDIRECT_URI_ALLOWLIST = AllowG
    /\ call.uri = EvilUri
    /\ call.redirects = JsonArray(<<EvilUri>>)

----------------------------------------------------------------------------
(* SpecRegister: POST /register with every body, under every setting of    *)
(* the allowlist.                                                          *)

InitRegister ==
    /\ REDIRECT_URI_ALLOWLIST \in AllAllowlists
    /\ API_KEY_MODE = "user_bound"
    /\ InitTables
    /\ call = NoCall
    /\ ret = NoRet

NextRegister == \E body \in RedirectValues : Register(body)

SpecRegister == InitRegister /\ [][NextRegister]_vars

\* the body is an acceptable registration
Registrable(body) ==
    /\ body.kind = "array"
    /\ Len(body.items) > 0
    /\ AllowlistDomains # {}
    /\ \A n \in 1..Len(body.items) :
           body.items[n].scheme # "" /\ OnAllowlist(body.items[n])

\* C8: POST /register is all-or-nothing (call' is the request of the step):
\* a body that is not a non-empty array, or comes while the allowlist names no domain, or has one URI that
\* does not parse or whose host is off the allowlist, is answered 400 and
\* changes no Client; any other body creates exactly one Client, under a new
\* client_id, whose redirect_uris is the submitted list, and leaves every
\* existing Client as it was.
C8_RegisterAllOrNothing ==
    [][call'.fn = "register" =>
          LET body == call'.redirects
          IN  IF Registrable(body)
              THEN /\ lastResp'.status = 200
                   /\ \E c \in clients' :
                          /\ clients' = clients \cup {c}
                          /\ \A d \in clients : d.clientId # c.clientId
                          /\ c.clientId = lastResp'.client_id
                          /\ c.redirectUris = JsonArray(body.items)
              ELSE /\ lastResp'.status = 400
                   /\ clients' = clients]_vars

\* with a Client in place, a list whose first URI is acceptable and whose
\* second is off the allowlist was refused, and only that Client exists
C8_Witness ==
    /\ call = [fn |-> "register", redirects |-> JsonArray(<<GoodUri, EvilUri>>)]
    /\ REDIRECT_URI_ALLOWLIST = AllowG
    /\ lastResp.op = "register"
    /\ lastResp.status = 400
    /\ clients = {[clientId |-> 1, redirectUris |-> JsonArray(<<SubUri, GoodUri2>>)]}

----------------------------------------------------------------------------
(* SpecKeys: static API keys are issued by POST /api/api-keys, revoked by  *)
(* the CLI, and presented to /mcp, while the clock advances.               *)

KeyBody(teamId, csrf_token) ==
    [apiKey |-> JsString("s"), teamId |-> JsString(teamId),
     csrf_token |-> csrf_token]

KeyBodies ==
    {KeyBody("t1", JsString("t1")), KeyBody("t2", JsString("t1")),
     KeyBody("t1", JsString("t2")), KeyBody("t1", JsUndefined),
     KeyBody("", JsString("t1"))}

Key1 == randomToken(PrefixKey, 1)
Key2 == randomToken(PrefixKey, 2)
BogusKey == randomToken(PrefixKey, 0)

NoBearer == [bearer |-> FALSE, value |-> <<>>]
Bearer(token) == [bearer |-> TRUE, value |-> token]

\* a request to /mcp: the key in one of its three places, or no key
McpInput(authorization, xApiKey, queryApiKey) ==
    [authorization |-> authorization, xApiKey |-> xApiKey,
     queryApiKey |-> queryApiKey]

McpInputs ==
    {McpInput(NoBearer, Undefined, Undefined)}
    \cup {McpInput(Bearer(k), Undefined, Undefined) : k \in {Key1, Key2, BogusKey}}
    \cup {McpInput(NoBearer, k, Undefined) : k \in {Key1, Key2}}
    \cup {McpInput(NoBearer, Undefined, k) : k \in {Key1, Key2}}

DoAuthMiddleware(q) == authMiddleware(q.authorization, q.xApiKey, q.queryApiKey)

\* a caller presents a key a response has carried, or one of its own making
PresentableKey(q) ==
    LET token == Presented(q.authorization, q.xApiKey, q.queryApiKey)
    IN  \/ token \in {<<>>, BogusKey}
        \/ \E k \in apiKeys : k.keyHash = sha256Hex(token)

InitKeys ==
    /\ REDIRECT_URI_ALLOWLIST = AllowG
    /\ API_KEY_MODE \in {"user_bound", ""}
    /\ InitTables
    /\ call = NoCall
    /\ ret = NoRet

NextKeys ==
    \/ \E body \in KeyBodies : IssueApiKey(body, JsString("t1"))
    \/ \E id \in 1..(MaxKeys + 1) : revokeApiKey(id)
    \/ \E q \in McpInputs : PresentableKey(q) /\ DoAuthMiddleware(q)
    \/ Tick

SpecKeys == InitKeys /\ [][NextKeys]_vars

\* C9: a request to /mcp that presents, in any of the three places, the raw
\* key of an ApiKey whose revoked_at is set gets nothing attached: it is
\* unauthenticated.
C9_RevokedKeyNeverResolves ==
    [][\A q \in McpInputs :
          (DoAuthMiddleware(q)
             /\ \E k \in apiKeys :
                    /\ k.revokedAt # Null
                    /\ k.keyHash = sha256Hex(lastResp'.token))
          => lastResp'.auth.kind = "none"]_vars

\* C10: revokeApiKey sets revoked_at, to the time of the command, on the
\* key of the given id when it is not yet revoked, and changes no other row;
\* for an unknown or a revoked key it changes nothing; and no step changes a
\* row whose revoked_at is set.
C10_RevokeIdempotent ==
    [][/\ \A id \in 1..(MaxKeys + 1) :
             revokeApiKey(id) =>
                 /\ \A k \in apiKeys :
                        IF k.id = id /\ k.revokedAt = Null
                        THEN [k EXCEPT !.revokedAt = now] \in apiKeys'
                        ELSE k \in apiKeys'
                 /\ Cardinality(apiKeys') = Cardinality(apiKeys)
                 /\ (\A k \in apiKeys : k.id = id => k.revokedAt # Null) =>
                        apiKeys' = apiKeys
       /\ \A k \in apiKeys : k.revokedAt # Null => k \in apiKeys']_vars

\* a key revoked earlier was revoked again, later: its revoked_at is the
\* time of the first command
C10_Witness ==
    /\ call.fn = "revoke"
    /\ \E k \in apiKeys :
           /\ k.id = call.id
           /\ k.revokedAt # Null
           /\ k.revokedAt < call.at

\* a payload the default schema accepts: apiKey and teamId are non-empty
\* strings, and scopes, when given, is a list
SchemaValid(body) ==
    /\ \A name \in {"apiKey", "teamId"} :
           /\ name \in DOMAIN body
           /\ body[name].type = "string"
           /\ body[name].text # ""
    /\ "scopes" \in DOMAIN body => body.scopes.type \in {"array", "undefined", "null"}

CsrfMatches(body, cookie) ==
    /\ "csrf_token" \in DOMAIN body
    /\ body.csrf_token.type = "string"
    /\ body.csrf_token.text # ""
    /\ body.csrf_token = cookie

\* C20: a POST /api/api-keys with the feature on, the CSRF token of the
\* cookie and a schema-valid payload adds exactly one UserConfig and exactly
\* one ApiKey that references it, and answers with the raw key that the
\* ApiKey's hash is of; with the feature off it answers 404, with a payload
\* the schema refuses 400, and neither adds a row; no step leaves a
\* UserConfig without its ApiKey or an ApiKey without its UserConfig.
C20_KeyIssuance ==
    [][/\ \A body \in KeyBodies :
             IssueApiKey(body, JsString("t1")) =>
                 IF /\ API_KEY_MODE = "user_bound"
                    /\ CsrfMatches(body, JsString("t1"))
                    /\ SchemaValid(body)
                 THEN /\ lastResp'.status = 200
                      /\ lastResp'.token # Undefined
                      /\ \E u \in userConfigs' \ userConfigs :
                         \E k \in apiKeys' \ apiKeys :
                             /\ userConfigs' = userConfigs \cup {u}
                             /\ apiKeys' = apiKeys \cup {k}
                             /\ k.userConfigId = u.id
                             /\ k.keyHash = sha256Hex(lastResp'.token)
                             /\ decryptJson(MASTER_KEY, u.configEnc).payload.teamId
                                    = body.teamId
                 ELSE /\ UNCHANGED <<userConfigs, apiKeys>>
                      /\ lastResp'.token = Undefined
                      /\ lastResp'.status =
                             IF API_KEY_MODE # "user_bound" THEN 404
                             ELSE IF ~CsrfMatches(body, JsString("t1")) THEN 403
                             ELSE 400
       /\ \A u \in userConfigs' :
              Cardinality({k \in apiKeys' : k.userConfigId = u.id}) = 1
       /\ \A k \in apiKeys' : \E u \in userConfigs' : k.userConfigId = u.id]_vars

\* a second key was issued: the answer carries it, and its row references
\* the UserConfig made with it
C20_Witness ==
    /\ lastResp.op = "api_keys"
    /\ lastResp.status = 200
    /\ Cardinality(userConfigs) = 2
    /\ \E k \in apiKeys :
           /\ k.keyHash = sha256Hex(lastResp.token)
           /\ \E u \in userConfigs : u.id = k.userConfigId /\ u.id = 2

----------------------------------------------------------------------------
(* SpecForms: the two forms a browser submits, POST /authorize and         *)
(* POST /api/api-keys, with a good, a wrong or a missing csrf_token, alone  *)
(* and together with another fault of the request.                         *)

\* the csrf_token is missing, or is not the one of the cookie
CsrfFails(csrf_token, cookie) == csrf_token = "" \/ csrf_token # cookie

FormAuthorizations ==
    {AuthorizeBase,
     [AuthorizeBase EXCEPT !.csrf_token = "t2"],
     [AuthorizeBase EXCEPT !.csrf_token = ""],
     [AuthorizeBase EXCEPT !.cookie = ""],
     [AuthorizeBase EXCEPT !.csrf_token = "", !.cookie = ""],
     [AuthorizeBase EXCEPT !.csrf_token = "t2", !.redirect_uri = EvilUri],
     [AuthorizeBase EXCEPT !.csrf_token = "t2", !.config = EmptyPayload],
     [AuthorizeBase EXCEPT !.csrf_token = "t2", !.code_challenge_method = "S512"],
     [AuthorizeBase EXCEPT !.csrf_token = "t2", !.client_id = NoClientId],
     [AuthorizeBase EXCEPT !.client_id = NoClientId]}

FormKeyBodies ==
    {KeyBody("t1", JsString("t1")), KeyBody("t1", JsString("t2")),
     KeyBody("t1", JsUndefined), KeyBody("", JsString("t2")),
     KeyBody("", JsString("t1"))}

FormCookie == JsString("t1")

InitForms ==
    /\ REDIRECT_URI_ALLOWLIST = AllowG
    /\ API_KEY_MODE \in {"user_bound", ""}
    /\ InitTables
    /\ call = NoCall
    /\ ret = NoRet

NextForms ==
    \/ \E r \in TokenRegistrations : Register(r)
    \/ \E q \in FormAuthorizations : DoPostAuthorize(q)
    \/ \E body \in FormKeyBodies : IssueApiKey(body, FormCookie)

SpecForms == InitForms /\ [][NextForms]_vars

\* C13: a POST /authorize, and a POST /api/api-keys while static keys are
\* on, whose csrf_token is missing or differs from the cookie gets the CSRF
\* rejection, whatever else it carries, and creates no Connection, AuthCode,
\* UserConfig or ApiKey.
C13_CsrfBeforeAll ==
    [][/\ \A q \in FormAuthorizations :
             (CsrfFails(q.csrf_token, q.cookie) /\ DoPostAuthorize(q)) =>
                 /\ lastResp' = Resp("authorize", 403, "Invalid CSRF token")
                 /\ UNCHANGED <<connections, authCodes, userConfigs, apiKeys>>
       /\ \A body \in FormKeyBodies :
             (/\ API_KEY_MODE = "user_bound"
              /\ body.csrf_token # FormCookie
              /\ IssueApiKey(body, FormCookie)) =>
                 /\ lastResp' = Resp("api_keys", 403, "Invalid CSRF token")
                 /\ UNCHANGED <<connections, authCodes, userConfigs, apiKeys>>]_vars

\* the same, of the rows alone: no such request creates a row
C13_CsrfCreatesNothing ==
    [][/\ \A q \in FormAuthorizations :
             (CsrfFails(q.csrf_token, q.cookie) /\ DoPostAuthorize(q)) =>
                 UNCHANGED <<connections, authCodes, userConfigs, apiKeys>>
       /\ \A body \in FormKeyBodies :
             (body.csrf_token # FormCookie /\ IssueApiKey(body, FormCookie)) =>
                 UNCHANGED <<connections, authCodes, userConfigs, apiKeys>>]_vars

----------------------------------------------------------------------------
(* SpecSession: codes are issued for two connections of different          *)
(* configuration, exchanged for bearer tokens, and the tokens presented to *)
(* /mcp, while connections are deleted and the clock runs up to and past   *)
(* the sessions' expiry.                                                   *)

SessionAuthorizations ==
    {[AuthorizeBase EXCEPT !.config = [ValidPayload EXCEPT !.teamId = JsString(t)]] :
        t \in {"t1", "t2"}}

SessionTokenInputs ==
    {TokenInput(Code1, 1, GoodUri, VerifierA),
     TokenInput(Code2, 1, GoodUri, VerifierA),
     TokenInput(Code1, 1, GoodUri, VerifierB)}

Token1 == randomToken(PrefixToken, 1)
Token2 == randomToken(PrefixToken, 2)
BogusToken == randomToken(PrefixToken, 0)

SessionMcpInputs ==
    {McpInput(Bearer(t), Undefined, Undefined) : t \in {Token1, Token2, BogusToken}}

\* a caller presents a token a response has carried, or one of its own making
PresentableToken(q) ==
    \/ q.authorization.value = BogusToken
    \/ \E g \in granted : g.token = q.authorization.value

InitSession ==
    /\ REDIRECT_URI_ALLOWLIST = AllowG
    /\ API_KEY_MODE = "user_bound"
    /\ InitTables
    /\ call = NoCall
    /\ ret = NoRet

NextSession ==
    \/ \E r \in TokenRegistrations : clients = {} /\ Register(r)
    \/ \E q \in SessionAuthorizations : DoPostAuthorize(q)
    \/ \E q \in SessionTokenInputs : PresentableCode(q.code) /\ DoTokenBegin(q)
    \/ \E i \in 1..MaxTokenCalls : TokenRedeem(i)
    \/ \E i \in 1..MaxTokenCalls : TokenFinish(i)
    \/ \E q \in SessionMcpInputs : PresentableToken(q) /\ DoAuthMiddleware(q)
    \/ \E id \in 1..MaxIssued : deleteConnection(id)
    \/ Tick
    \/ TickLong

SpecSession == InitSession /\ [][NextSession]_vars

\* the token resolves: the guard of /mcp finds a session and its connection
Resolves(tokenHash) == SessionMatches(tokenHash) # {}

\* C18: a request to /mcp gets a Connection attached for a bearer token
\* only when a Session of the token's hash has now < expires_at, which is
\* less than TOKEN_TTL_SECONDS after the exchange; no step changes the
\* expires_at of a Session; and a Session's token that does not resolve does
\* not resolve after any step.
C18_ResolvesUntilExpiry ==
    [][/\ \A q \in SessionMcpInputs :
             (DoAuthMiddleware(q) /\ lastResp'.auth.kind = "session") =>
                 \E x \in sessions :
                     /\ x.tokenHash = sha256Hex(lastResp'.token)
                     /\ now < x.expiresAt
                     /\ now < reqs[x.id].now + TOKEN_TTL_SECONDS
       /\ \A x \in sessions : \A y \in sessions' :
              y.id = x.id => y.expiresAt = x.expiresAt
       /\ \A x \in sessions :
              ~Resolves(x.tokenHash) => ~(Resolves(x.tokenHash))']_vars

\* a token that was granted is refused at the very second its Session
\* expires, the Session and its Connection still being there
C18_Witness ==
    /\ lastResp.op = "mcp"
    /\ lastResp.status = 401
    /\ \E g \in granted :
           /\ g.token = lastResp.token
           /\ \E x \in sessions :
                  /\ x.tokenHash = sha256Hex(g.token)
                  /\ x.expiresAt = now
                  /\ ConnectionRows(x.connectionId) # {}

\* C19: after any step, the token granted for a code resolves to no
\* Connection but the one inserted with that code; what /mcp attaches for
\* the token is that Connection's client and configuration; and no step
\* changes a Connection.
C19_TokenOfItsConnection ==
    [][/\ \A g \in granted' : \A k \in 1..Len(issued') :
              issued'[k].code = g.code =>
                  /\ \A m \in (SessionMatches(sha256Hex(g.token)))' :
                         m[2].id = issued'[k].connectionId
                  /\ (/\ lastResp'.op = "mcp"
                      /\ lastResp' # lastResp
                      /\ lastResp'.token = g.token
                      /\ lastResp'.auth.kind = "session") =>
                         \E c \in connections :
                             /\ c.id = issued[k].connectionId
                             /\ lastResp'.auth.clientId = c.clientId
                             /\ lastResp'.auth.config = c.config
       /\ \A c \in connections : \A d \in connections' : d.id = c.id => d = c]_vars

\* both codes were exchanged, the Connection of one token was deleted, and
\* the other token, presented to /mcp, got its own Connection's config
C19_Witness ==
    /\ Cardinality(granted) = 2
    /\ Cardinality(connections) = 1
    /\ lastResp.op = "mcp"
    /\ lastResp.auth.kind = "session"
    /\ \E g \in granted : \E c \in connections :
           /\ g.token = lastResp.token
           /\ g.connectionId = c.id
           /\ lastResp.auth.config = c.config

----------------------------------------------------------------------------
(* SpecStore: every handler that writes a code, a token or a key to a      *)
(* table: both ways of issuing a code, the exchange, and the issuing of a  *)
(* static key.                                                             *)

InitStore ==
    /\ REDIRECT_URI_ALLOWLIST = AllowG
    /\ API_KEY_MODE = "user_bound"
    /\ InitTables
    /\ call = NoCall
    /\ ret = NoRet

NextStore ==
    \/ \E r \in TokenRegistrations : clients = {} /\ Register(r)
    \/ \E q \in TokenAuthorizations : DoPostAuthorize(q)
    \/ DoGoogleCallback(CallbackBase)
    \/ \E q \in SessionTokenInputs : PresentableCode(q.code) /\ DoTokenBegin(q)
    \/ \E i \in 1..MaxTokenCalls : TokenRedeem(i)
    \/ \E i \in 1..MaxTokenCalls : TokenFinish(i)
    \/ \E t \in {"t1", "t2"} : IssueApiKey(KeyBody(t, JsString("t1")), JsString("t1"))

SpecStore == InitStore /\ [][NextStore]_vars

\* the codes, tokens and keys that the handlers have generated
RawCodes == {issued[k].code : k \in 1..Len(issued)}
RawTokens == {randomToken(PrefixToken, i) : i \in 1..Len(reqs)}
RawKeys == {randomToken(PrefixKey, n) : n \in 1..Cardinality(userConfigs)}
RawSecrets == RawCodes \cup RawTokens \cup RawKeys

\* C16: no row holds a raw code, token or key: code_hash, token_hash and
\* key_hash are each the SHA-256 hash, in hex, of a generated code, token
\* or key, and are none of the raw values; nor is a stored code_challenge.
C16_OnlyHashesStored ==
    /\ \A a \in authCodes :
           /\ a.codeHash \notin RawSecrets
           /\ a.codeChallenge \notin RawSecrets
           /\ \E c \in RawCodes : a.codeHash = ToHex(Sha256(c))
    /\ \A x \in sessions :
           /\ x.tokenHash \notin RawSecrets
           /\ \E t \in RawTokens : x.tokenHash = ToHex(Sha256(t))
    /\ \A k \in apiKeys :
           /\ k.keyHash \notin RawSecrets
           /\ \E r \in RawKeys : k.keyHash = ToHex(Sha256(r))

\* a code waits to be exchanged, another was exchanged for a token that was
\* granted, and a static key was issued: each table holds a row
C16_Witness ==
    /\ authCodes # {}
    /\ \E g \in granted : \E x \in sessions : x.id = g.call
    /\ apiKeys # {}
    /\ \E k \in 1..Len(issued) : issued[k].via = "callback"

----------------------------------------------------------------------------
(* SpecRotated: the server after the operator has changed MASTER_KEY and   *)
(* restarted it: the key issued before is in the tables, its UserConfig    *)
(* encrypted under the earlier master key.  Keys are issued, revoked and   *)
(* presented to /mcp.                                                      *)

EarlierMasterKey == "earlier"

InitRotated ==
    /\ REDIRECT_URI_ALLOWLIST = AllowG
    /\ API_KEY_MODE = "user_bound"
    /\ clients = {}
    /\ connections = {}
    /\ authCodes = {}
    /\ sessions = {}
    /\ userConfigs = {[id |-> 1, createdAt |-> 0,
                       configEnc |-> encryptJson(EarlierMasterKey,
                                                 KeyBody("t1", JsString("t1")))]}
    /\ apiKeys = {[id |-> 1, userConfigId |-> 1, keyHash |-> sha256Hex(Key1),
                   revokedAt |-> Null, createdAt |-> 0]}
    /\ credentials = {}
    /\ now \in {0, TickSeconds}
    /\ ticks = 0
    /\ reqs = <<>>
    /\ issued = <<>>
    /\ granted = {}
    /\ lastResp = Resp("none", 0, "none")
    /\ limiter = NoHits
    /\ call = NoCall
    /\ ret = NoRet

NextRotated ==
    \/ \E body \in KeyBodies : IssueApiKey(body, JsString("t1"))
    \/ \E id \in 1..MaxKeys : revokeApiKey(id)
    \/ \E q \in McpInputs : PresentableKey(q) /\ DoAuthMiddleware(q)
    \/ Tick

SpecRotated == InitRotated /\ [][NextRotated]_vars

\* the key matches no ApiKey row, or the UserConfig of the row it matches
\* does not decrypt under MASTER_KEY
KeyAbsentOrUndecryptable(token) ==
    \/ ApiKeyMatches(sha256Hex(token)) = {}
    \/ \E m \in ApiKeyMatches(sha256Hex(token)) :
           decryptJson(MASTER_KEY, m[2].configEnc).threw

\* C21: a request to /mcp that presents a key which matches no ApiKey row,
\* or whose UserConfig does not decrypt, gets one and the same answer, 401
\* Unauthorized with nothing attached: a failed decryption is no 500.
C21_UndecryptableIsUnauthenticated ==
    [][\A q \in McpInputs :
          (/\ DoAuthMiddleware(q)
           /\ Presented(q.authorization, q.xApiKey, q.queryApiKey) # <<>>
           /\ KeyAbsentOrUndecryptable(
                  Presented(q.authorization, q.xApiKey, q.queryApiKey)))
          => /\ lastResp'.status = 401
             /\ lastResp'.error = "Unauthorized"
             /\ lastResp'.auth.kind = "none"]_vars

----------------------------------------------------------------------------
(* The cipher (crypto.ts, env.ts), in full.  The handlers above use it     *)
(* through encryptJson and decryptJson, which keep of a ciphertext the key *)
(* it was sealed with and the payload; here the text of the token is       *)
(* built and parsed as the source does.  A text is a sequence of character *)
(* codes: 0..15 the digits 0-9a-f, CharUpperA.. the digits A-F, CharColon, *)
(* and CharOther for a character that is no hexadecimal digit.  Sizes are  *)
(* scaled as the digest is: a key is 2 bytes (for 32), written as 4        *)
(* hexadecimal digits (for 64); a nonce is 1 byte, a tag 2 bytes.          *)

CharUpperA == 20
CharColon == 30
CharOther == 31
HexKeyLength == 4

IsHexDigit(c) == c \in 0..15 \/ c \in CharUpperA..(CharUpperA + 5)

HexValue(c) == IF c \in 0..15 THEN c ELSE c - CharUpperA + 10

\* /^[0-9a-fA-F]{64}$/.test(value || '')
isHex64(value) ==
    /\ Len(value) = HexKeyLength
    /\ \A n \in 1..Len(value) : IsHexDigit(value[n])

\* Buffer.from(text, 'hex'): a byte for each pair of digits, up to the first
\* pair that is not two digits
RECURSIVE FromHex(_)
FromHex(text) ==
    IF Len(text) < 2 \/ ~IsHexDigit(text[1]) \/ ~IsHexDigit(text[2]) THEN <<>>
    ELSE <<HexValue(text[1]) * 16 + HexValue(text[2])>>
         \o FromHex(SubSeq(text, 3, Len(text)))

getDerivedKey(masterKey) ==
    IF isHex64(masterKey) THEN FromHex(masterKey) ELSE Sha256(masterKey)

\* JSON.stringify and JSON.parse, on the payloads of JsonPayloads: the
\* UTF-8 text of each, and the payload of each text; any other text is a
\* SyntaxError
HelloPayload == [hello |-> JsString("world"), count |-> JsNumber("2")]

JsonPayloads ==
    {JsNull, JsNumber("0"), JsString(""), JsBoolean("false"), ValidPayload,
     HelloPayload}

JSON_stringify(payload) ==
    CASE payload = JsNull -> <<110, 117, 108, 108>>
      [] payload = JsNumber("0") -> <<48>>
      [] payload = JsString("") -> <<34, 34>>
      [] payload = JsBoolean("false") -> <<102, 97, 108, 115, 101>>
      [] payload = ValidPayload -> <<123, 34, 97, 112, 105, 75, 101, 121, 34, 58, 34, 115, 34, 44, 34, 116, 101, 97, 109, 73, 100, 34, 58, 34, 116, 49, 34, 125>>
      [] payload = HelloPayload -> <<123, 34, 104, 101, 108, 108, 111, 34, 58, 34, 119, 111, 114, 108, 100, 34, 44, 34, 99, 111, 117, 110, 116, 34, 58, 50, 125>>

JSON_parse(text) ==
    IF \E p \in JsonPayloads : JSON_stringify(p) = text
    THEN [threw |-> FALSE, value |-> CHOOSE p \in JsonPayloads : JSON_stringify(p) = text]
    ELSE [threw |-> TRUE, value |-> JsUndefined]

\* AES-256-GCM: a stream cipher, byte n of the text shifted by byte n of a
\* key stream of the key and the nonce, and a tag over key, nonce and
\* ciphertext
KeyStream(key, iv, n) == (key[1] * 3 + key[2] * 5 + iv[1] * 7 + n * 11) % 256

CipherUpdate(key, iv, plaintext) ==
    [n \in 1..Len(plaintext) |-> (plaintext[n] + KeyStream(key, iv, n)) % 256]

DecipherUpdate(key, iv, ciphertext) ==
    [n \in 1..Len(ciphertext) |-> (ciphertext[n] + 256 - KeyStream(key, iv, n)) % 256]

GetAuthTag(key, iv, ciphertext) ==
    LET h == DigestFold(key \o iv \o <<Len(iv)>> \o ciphertext, 40503)
    IN  <<h \div 256, h % 256>>

EncodedPayload_TagFirst(iv, authTag, ciphertext) ==
    ToHex(authTag) \o <<CharColon>> \o ToHex(iv) \o <<CharColon>> \o ToHex(ciphertext)

\* `${iv.toString('hex')}:${authTag.toString('hex')}:${ciphertext.toString('hex')}`
EncodedPayload(iv, authTag, ciphertext) ==
    ToHex(iv) \o <<CharColon>> \o ToHex(authTag) \o <<CharColon>> \o ToHex(ciphertext)

\* encryptJson(masterKey, payload), iv being what crypto.randomBytes gave
encryptJsonText(masterKey, payload, iv) ==
    LET key == getDerivedKey(masterKey)
        plaintext == JSON_stringify(payload)
        ciphertext == CipherUpdate(key, iv, plaintext)
        authTag == GetAuthTag(key, iv, ciphertext)
    IN  EncodedPayload(iv, authTag, ciphertext)

\* String.prototype.split(':')
RECURSIVE SplitColon(_, _)
SplitColon(text, part) ==
    IF text = <<>> THEN <<part>>
    ELSE IF Head(text) = CharColon THEN <<part>> \o SplitColon(Tail(text), <<>>)
    ELSE SplitColon(Tail(text), Append(part, Head(text)))

Threw(error) == [threw |-> TRUE, error |-> error, payload |-> JsUndefined]

TagVerifies_Always(key, iv, authTag, ciphertext) == TRUE

\* decipher.final(): the tag that was set is the tag of the ciphertext
TagVerifies(key, iv, authTag, ciphertext) == authTag = GetAuthTag(key, iv, ciphertext)

\* decryptJson(masterKey, encoded): what it returns, or the Error it throws
decryptJsonText(masterKey, encoded) ==
    LET key == getDerivedKey(masterKey)
        parts == SplitColon(encoded, <<>>)
        At(n) == IF n <= Len(parts) THEN parts[n] ELSE <<>>
        iv == FromHex(At(1))
        authTag == FromHex(At(2))
        ciphertext == FromHex(At(3))
    IN  IF At(1) = <<>> \/ At(2) = <<>> \/ At(3) = <<>>
        THEN Threw("Invalid encrypted payload")
        ELSE IF iv = <<>> THEN Threw("Invalid initialization vector")
        ELSE IF Len(authTag) # 2 THEN Threw("Invalid authentication tag length")
        ELSE IF ~TagVerifies(key, iv, authTag, ciphertext)
        THEN Threw("Unsupported state or unable to authenticate data")
        ELSE LET parsed == JSON_parse(DecipherUpdate(key, iv, ciphertext))
             IN  IF parsed.threw THEN Threw("SyntaxError")
                 ELSE [threw |-> FALSE, error |-> "none", payload |-> parsed.value]

----------------------------------------------------------------------------
(* SpecCrypto: encryptJson applied to every master key, payload and nonce  *)
(* of the sets below, and decryptJson applied, under every master key, to  *)
(* the token it gave and to that token damaged in each way of Damages.     *)

HexKeyLower == <<10, 11, 0, 1>>                   \* 'ab01'
HexKeyUpper == <<CharUpperA, CharUpperA + 1, 0, 1>>   \* 'AB01'
HexKeyOther == <<1, 2, 3, 4>>                     \* '1234'
LongHexText == <<1, 2, 3, 4, 5>>                  \* '12345', a passphrase
PassphraseA == <<CharOther, CharOther + 1, CharOther + 2>>
PassphraseB == <<CharOther, CharOther + 1>>

MasterKeys ==
    {HexKeyLower, HexKeyUpper, HexKeyOther, LongHexText, PassphraseA, PassphraseB}

Nonces == {<<0>>, <<200>>}

Damages ==
    {"none", "bad", "empty", "two segments", "empty segment", "four segments",
     "trailing colon", "iv not hex", "ciphertext not hex"}

\* the token, damaged
Damage(kind, encoded) ==
    LET parts == SplitColon(encoded, <<>>)
    IN  CASE kind = "none" -> encoded
          [] kind = "bad" -> <<11, 10, 13>>
          [] kind = "empty" -> <<>>
          [] kind = "two segments" -> parts[1] \o <<CharColon>> \o parts[2]
          [] kind = "empty segment" ->
                 parts[1] \o <<CharColon, CharColon>> \o parts[3]
          [] kind = "four segments" -> encoded \o <<CharColon, 0, 0>>
          [] kind = "trailing colon" -> encoded \o <<CharColon>>
          [] kind = "iv not hex" ->
                 <<CharOther, CharOther, CharColon>> \o parts[2]
                     \o <<CharColon>> \o parts[3]
          [] kind = "ciphertext not hex" ->
                 parts[1] \o <<CharColon>> \o parts[2]
                     \o <<CharColon, CharOther>> \o Tail(parts[3])

InitCrypto ==
    /\ REDIRECT_URI_ALLOWLIST = AllowG
    /\ API_KEY_MODE = "user_bound"
    /\ InitTables
    /\ call \in {[fn |-> "encryptJson", masterKey |-> k, payload |-> p, iv |-> iv] :
                    k \in MasterKeys, p \in JsonPayloads, iv \in Nonces}
    /\ ret = NoRet

ApplyEncryptJson ==
    /\ ret = NoRet
    /\ ret' = [done |-> FALSE, fn |-> "encryptJson",
               value |-> encryptJsonText(call.masterKey, call.payload, call.iv)]
    /\ UNCHANGED <<limiter, REDIRECT_URI_ALLOWLIST, API_KEY_MODE, clients, connections,
                   authCodes, sessions, userConfigs, apiKeys, credentials,
                   now, ticks, reqs, issued, granted, lastResp, call>>

ApplyDecryptJson(masterKey, kind) ==
    /\ ret # NoRet
    /\ ret.fn = "encryptJson"
    /\ LET encoded == Damage(kind, ret.value)
       IN  ret' = [done |-> TRUE, fn |-> "decryptJson", masterKey |-> masterKey,
                   damage |-> kind, encoded |-> encoded,
                   value |-> decryptJsonText(masterKey, encoded)]
    /\ UNCHANGED <<limiter, REDIRECT_URI_ALLOWLIST, API_KEY_MODE, clients, connections,
                   authCodes, sessions, userConfigs, apiKeys, credentials,
                   now, ticks, reqs, issued, granted, lastResp, call>>

NextCrypto ==
    \/ ApplyEncryptJson
    \/ \E k \in MasterKeys, kind \in Damages : ApplyDecryptJson(k, kind)

SpecCrypto == InitCrypto /\ [][NextCrypto]_vars

\* decryptJson has been applied
Decrypted == ret # NoRet /\ ret.fn = "decryptJson"

\* C22: decryptJson, under the master key that encryptJson was given, of
\* the token that encryptJson returned, returns the payload that was
\* encrypted, whatever the key, the payload and the nonce.
C22_RoundTrip ==
    (Decrypted /\ ret.damage = "none" /\ ret.masterKey = call.masterKey) =>
        /\ ~ret.value.threw
        /\ ret.value.payload = call.payload

\* the payload of the test went round under a key of hexadecimal digits
C22_Witness ==
    /\ Decrypted /\ ret.damage = "none"
    /\ ret.masterKey = call.masterKey
    /\ isHex64(call.masterKey)
    /\ call.payload = HelloPayload
    /\ ret.value.payload = HelloPayload

AuthenticationError == "Unsupported state or unable to authenticate data"

\* C23: decryptJson, under a master key whose derived key is not the derived
\* key of the master key that encryptJson was given, throws the
\* authentication error of the cipher on the token that encryptJson
\* returned, and returns no payload.
C23_OtherKeyFails ==
    (/\ Decrypted /\ ret.damage = "none"
     /\ getDerivedKey(ret.masterKey) # getDerivedKey(call.masterKey)) =>
        /\ ret.value.threw
        /\ ret.value.error = AuthenticationError
        /\ ret.value.payload = JsUndefined

\* a token made under a key of hexadecimal digits was refused under a
\* passphrase
C23_Witness ==
    /\ Decrypted /\ ret.damage = "none"
    /\ isHex64(call.masterKey) /\ ~isHex64(ret.masterKey)
    /\ ret.value.threw
    /\ ret.value.error = AuthenticationError

\* the text is hexadecimal digits only, and at least one
IsHexSegment(text) == text # <<>> /\ \A n \in 1..Len(text) : IsHexDigit(text[n])

\* the token is exactly three segments of hexadecimal digits, with a colon
\* between each two
ThreeHexSegments(encoded) ==
    \E a, b \in 1..Len(encoded) :
        /\ a < b
        /\ encoded[a] = CharColon /\ encoded[b] = CharColon
        /\ IsHexSegment(SubSeq(encoded, 1, a - 1))
        /\ IsHexSegment(SubSeq(encoded, a + 1, b - 1))
        /\ IsHexSegment(SubSeq(encoded, b + 1, Len(encoded)))

\* C24: decryptJson throws 'Invalid encrypted payload', and not the
\* authentication error, on every token that is not exactly three segments
\* of hexadecimal digits separated by colons.
C24_InvalidPayloadError ==
    (Decrypted /\ ~ThreeHexSegments(ret.encoded)) =>
        /\ ret.value.threw
        /\ ret.value.error = "Invalid encrypted payload"

\* the same, of the tokens with fewer than three segments or an empty one
\* among the first three
C24_MissingSegment ==
    (Decrypted /\ ret.damage \in {"bad", "empty", "two segments", "empty segment"}) =>
        /\ ret.value.threw
        /\ ret.value.error = "Invalid encrypted payload"

----------------------------------------------------------------------------
(* SpecSchema: validateConfig and splitSecrets applied, under the default  *)
(* schema and under a schema with a field of each kind, to payloads with   *)
(* each field missing, empty, of its own type and of another, and to       *)
(* payloads with keys that the schema does not know.                       *)

JsObjectValue == [type |-> "object", text |-> "{}"]

FullSchema ==
    defaultSchema \o
    <<Field("enabled", "checkbox", FALSE, FALSE, ""),
      Field("extra", "text", FALSE, FALSE, "json")>>

Schemas == {defaultSchema, FullSchema}

\* payloads of the five fields, a missing field being undefined
FieldPayloads ==
    {[apiKey |-> a, teamId |-> t, scopes |-> c, enabled |-> e, extra |-> x] :
        a \in {JsUndefined, JsNull, JsString(""), JsString("s"), JsNumber("0")},
        t \in {JsUndefined, JsString(""), JsString("t1"), JsArrayValue("x")},
        c \in {JsUndefined, JsNull, JsArrayValue("x"), JsString("s")},
        e \in {JsUndefined, JsBoolean("true"), JsString("s")},
        x \in {JsUndefined, JsObjectValue, JsArrayValue("x"), JsString("s")}}

\* payloads of any of these keys, two of them unknown to the schemas
KeyedPayloadBase ==
    [apiKey |-> JsString("s"), teamId |-> JsString("t1"),
     scopes |-> JsArrayValue("x"), userEmail |-> JsString("u@x"),
     __proto__ |-> JsString("p")]

KeyedPayloads == {Restrict(KeyedPayloadBase, keys) : keys \in SUBSET DOMAIN KeyedPayloadBase}

InitSchema ==
    /\ REDIRECT_URI_ALLOWLIST = AllowG
    /\ API_KEY_MODE = "user_bound"
    /\ InitTables
    /\ call \in {[fn |-> "schema", schema |-> f, payload |-> p] :
                    f \in Schemas, p \in FieldPayloads \cup KeyedPayloads}
    /\ ret = NoRet

ApplyValidateConfig ==
    /\ ret = NoRet
    /\ ret' = [done |-> TRUE, fn |-> "validateConfig",
               value |-> validateConfig(call.schema, call.payload)]
    /\ UNCHANGED <<limiter, REDIRECT_URI_ALLOWLIST, API_KEY_MODE, clients, connections,
                   authCodes, sessions, userConfigs, apiKeys, credentials,
                   now, ticks, reqs, issued, granted, lastResp, call>>

ApplySplitSecrets ==
    /\ ret = NoRet
    /\ ret' = [done |-> TRUE, fn |-> "splitSecrets",
               value |-> splitSecrets(call.schema, call.payload)]
    /\ UNCHANGED <<limiter, REDIRECT_URI_ALLOWLIST, API_KEY_MODE, clients, connections,
                   authCodes, sessions, userConfigs, apiKeys, credentials,
                   now, ticks, reqs, issued, granted, lastResp, call>>

NextSchema == ApplyValidateConfig \/ ApplySplitSecrets

SpecSchema == InitSchema /\ [][NextSchema]_vars

\* payload[name], undefined when the payload has no such key
ValueOf(payload, name) ==
    IF name \in DOMAIN payload THEN payload[name] ELSE JsUndefined

\* the field is required and the value undefined, null or the empty string
RequiredMissing(field, value) ==
    /\ field.required
    /\ \/ value.type \in {"undefined", "null"}
       \/ (value.type = "string" /\ value.text = "")

\* the value is there and is not of the field's type
WrongType(field, value) ==
    /\ value.type \notin {"undefined", "null"}
    /\ ~RequiredMissing(field, value)
    /\ \/ field.type = "checkbox" /\ value.type # "boolean"
       \/ field.format = "csv" /\ value.type # "array"
       \/ field.format = "json" /\ value.type \notin {"object", "array"}
       \/ field.format = "" /\ field.type # "checkbox" /\ value.type # "string"

\* the fields of the schema that the payload violates
ViolatedFields(schema, payload) ==
    {n \in 1..Len(schema) :
        \/ RequiredMissing(schema[n], ValueOf(payload, schema[n].name))
        \/ WrongType(schema[n], ValueOf(payload, schema[n].name))}

C26_SplitPartitions ==
    (ret # NoRet /\ ret.fn = "splitSecrets") =>
        LET schema == call.schema
            payload == call.payload
            flagged == {schema[n].name : n \in {m \in 1..Len(schema) : schema[m].sensitive}}
            pub == ret.value.publicConfig
            sec == ret.value.secretConfig
        IN  /\ DOMAIN sec = DOMAIN payload \cap flagged
            /\ DOMAIN pub = DOMAIN payload \ flagged
            /\ (DOMAIN pub) \cap (DOMAIN sec) = {}
            /\ (DOMAIN pub) \cup (DOMAIN sec) = DOMAIN payload
            /\ \A k \in DOMAIN pub : pub[k] = payload[k]
            /\ \A k \in DOMAIN sec : sec[k] = payload[k]

\* the same, of the payloads without the key '__proto__'
C26_SplitPartitionsOtherKeys ==
    ("__proto__" \notin DOMAIN call.payload) => C26_SplitPartitions

----------------------------------------------------------------------------
(* SpecLimit: requests of two client IPs arrive at the routes, while the   *)
(* clock runs past the window of the limiters of a minute.                 *)

InitLimit ==
    /\ REDIRECT_URI_ALLOWLIST = AllowG
    /\ API_KEY_MODE = "user_bound"
    /\ InitTables
    /\ call = NoCall
    /\ ret = NoRet

NextLimit ==
    \/ \E route \in Routes : Arrive(route, "ip1")
    \/ Arrive("POST /authorize", "ip2")
    \/ Tick

SpecLimit == InitLimit /\ [][NextLimit]_vars

\* the endpoint families, and the family of each route
Families == {"registration", "connect/authorize", "token exchange", "API key issuance"}

FamilyOf(route) ==
    CASE route = "POST /register" -> "registration"
      [] route \in {"GET /authorize", "POST /authorize", "GET /auth/google/callback"}
             -> "connect/authorize"
      [] route = "POST /token" -> "token exchange"
      [] route = "POST /api/api-keys" -> "API key issuance"

FamilyLimiter(family) ==
    CASE family = "registration" -> "registerLimiter"
      [] family = "connect/authorize" -> "connectLimiter"
      [] family = "token exchange" -> "tokenLimiter"
      [] family = "API key issuance" -> "apiKeyLimiter"

\* the IP has used the family's quota in the window that is running
QuotaUsed(family, ip) ==
    LET entry == limiter[FamilyLimiter(family)][ip]
    IN  entry.hits >= LimiterMax(FamilyLimiter(family)) /\ now < entry.resetTime

\* C27: a request of an IP to a route of a family whose quota the IP has
\* used in the running window is answered 429, and a request changes the
\* count of its own IP and family only.
C27_RateLimited ==
    [][\A route \in Routes : \A ip \in Ips :
          Arrive(route, ip) =>
              /\ QuotaUsed(FamilyOf(route), ip) => lastResp'.status = 429
              /\ \A l \in Limiters : \A other \in Ips :
                     (l # FamilyLimiter(FamilyOf(route)) \/ other # ip) =>
                         limiter'[l][other] = limiter[l][other]]_vars

\* the same, of the four routes that are declared with a limiter
C27_LimitedRoutes ==
    [][\A route \in Routes : \A ip \in Ips :
          (Arrive(route, ip) /\ RouteLimiter(route) # "none") =>
              /\ QuotaUsed(FamilyOf(route), ip) => lastResp'.status = 429
              /\ ~QuotaUsed(FamilyOf(route), ip) => lastResp'.status = 0
              /\ \A l \in Limiters : \A other \in Ips :
                     (l # RouteLimiter(route) \/ other # ip) =>
                         limiter'[l][other] = limiter[l][other]]_vars

----------------------------------------------------------------------------
(* Deleting a connection, under SpecSession. *)

\* C28: deleteConnection removes the Connection of the id, its Sessions and
\* its AuthCodes, and no other row; after any step, a Connection that is
\* gone has no Session and no AuthCode left, so none of its tokens resolves
\* and none of its codes matches in the transaction of POST /token.
C28_DeleteCascades ==
    [][/\ \A id \in 1..MaxIssued :
             deleteConnection(id) =>
                 /\ connections' = {c \in connections : c.id # id}
                 /\ sessions' = {x \in sessions : x.connectionId # id}
                 /\ authCodes' = {a \in authCodes : a.connectionId # id}
                 /\ \A x \in sessions :
                        x.connectionId = id => ~(Resolves(x.tokenHash))'
                 /\ \A a \in authCodes :
                        a.connectionId = id =>
                            (MatchingCodes(a.codeHash, now))' = {}
       /\ \A k \in 1..Len(issued') :
              (\A c \in connections' : c.id # issued'[k].connectionId) =>
                  /\ \A g \in granted' :
                         g.connectionId = issued'[k].connectionId =>
                             ~(Resolves(sha256Hex(g.token)))'
                  /\ \A x \in sessions' : x.connectionId # issued'[k].connectionId
                  /\ \A a \in authCodes' : a.connectionId # issued'[k].connectionId
                  /\ (MatchingCodes(sha256Hex(issued[k].code), now))' = {}]_vars

\* a token was granted and a code is outstanding; the Connection of the
\* token was deleted, and the token, presented to /mcp, was refused, while
\* the other Connection and its code are there
C28_Witness ==
    /\ lastResp.op = "mcp"
    /\ lastResp.status = 401
    /\ \E g \in granted :
           /\ g.token = lastResp.token
           /\ ConnectionRows(g.connectionId) = {}
    /\ connections # {}
    /\ authCodes # {}

----------------------------------------------------------------------------
(* The PKCE parameters of the stored codes, under SpecIssue. *)

\* C29: every AuthCode has a code_challenge_method of S256 or plain and a
\* code_challenge that is not empty, whether POST /authorize or the
\* upstream callback inserted it.
C29_StoredPkceValid ==
    \A a \in authCodes :
        /\ a.codeChallengeMethod \in {"S256", "plain"}
        /\ ~Falsy(a.codeChallenge)

\* the same, of the codes that POST /authorize inserted
C29_AuthorizeStoredPkceValid ==
    \A a \in authCodes : \A k \in 1..Len(issued) :
        (issued[k].connectionId = a.connectionId /\ issued[k].via = "authorize") =>
            /\ a.codeChallengeMethod \in {"S256", "plain"}
            /\ ~Falsy(a.codeChallenge)

----------------------------------------------------------------------------
(* SpecAllowlist: a client registers, the operator restarts the server     *)
(* with another REDIRECT_URI_ALLOWLIST, and the three stages that take a   *)
(* redirect_uri are requested before and after.                            *)

AllowlistSettings == {AllowG, AllowE, NoAllowlist}

AllowlistTokenInputs ==
    {TokenInput(Code1, 1, GoodUri, VerifierA),
     TokenInput(BogusCode, 1, GoodUri, VerifierA)}

InitAllowlist ==
    /\ REDIRECT_URI_ALLOWLIST = AllowG
    /\ API_KEY_MODE = "user_bound"
    /\ InitTables
    /\ call = NoCall
    /\ ret = NoRet

NextAllowlist ==
    \/ \E r \in TokenRegistrations : clients = {} /\ Register(r)
    \/ \E setting \in AllowlistSettings : Reconfigure(setting)
    \/ GetAuthorize(McpParamsBase.client_id, McpParamsBase.redirect_uri,
                    McpParamsBase.code_challenge_method)
    \/ DoPostAuthorize(AuthorizeBase)
    \/ \E q \in AllowlistTokenInputs : PresentableCode(q.code) /\ DoTokenBegin(q)
    \/ \E i \in 1..MaxTokenCalls : TokenRedeem(i)
    \/ \E i \in 1..MaxTokenCalls : TokenFinish(i)
    \/ Tick

SpecAllowlist == InitAllowlist /\ [][NextAllowlist]_vars

\* the redirect_uri is registered for the client, and its hostname matches
\* no domain of the allowlist now in force
RegisteredButOffAllowlist(client_id, redirect_uri) ==
    /\ \E c \in ClientRows(client_id) : LiteralMember(redirect_uri, c.redirectUris)
    /\ ~OnAllowlist(redirect_uri)

\* C30: when the redirect_uri of a request is registered for its client
\* but its hostname matches no domain of the allowlist now in force, GET
\* /authorize answers 403, POST /authorize answers 400 and issues nothing,
\* and POST /token answers 400 before it looks for the code.
C30_AllowlistAtEachRequest ==
    [][/\ (/\ GetAuthorize(McpParamsBase.client_id, McpParamsBase.redirect_uri,
                           McpParamsBase.code_challenge_method)
           /\ RegisteredButOffAllowlist(McpParamsBase.client_id,
                                        McpParamsBase.redirect_uri))
          => lastResp'.status = 403
       /\ (/\ DoPostAuthorize(AuthorizeBase)
           /\ RegisteredButOffAllowlist(AuthorizeBase.client_id,
                                        AuthorizeBase.redirect_uri))
          => /\ lastResp'.status = 400
             /\ lastResp'.error = "redirect URI is not allowed"
             /\ lastResp'.code = Undefined
             /\ UNCHANGED <<connections, authCodes, issued>>
       /\ \A q \in AllowlistTokenInputs :
              (/\ DoTokenBegin(q)
               /\ RegisteredButOffAllowlist(q.client_id, q.redirect_uri))
              => /\ reqs'[Len(reqs')].pc = "done"
                 /\ reqs'[Len(reqs')].status = 400
                 /\ reqs'[Len(reqs')].error = "redirect URI is not allowed"
                 /\ reqs'[Len(reqs')].token = Undefined]_vars

\* a code was issued while the hostname was on the allowlist; the allowlist
\* was changed, and the exchange of the code, with the registered
\* redirect_uri, was refused: the code is still there
C30_Witness ==
    /\ REDIRECT_URI_ALLOWLIST = AllowE
    /\ \E k \in 1..Len(issued) : \E i \in 1..Len(reqs) :
           /\ issued[k].sent
           /\ reqs[i].code = issued[k].code
           /\ reqs[i].status = 400
           /\ reqs[i].error = "redirect URI is not allowed"
           /\ RegisteredButOffAllowlist(reqs[i].client_id, reqs[i].redirect_uri)
           /\ \E a \in authCodes : a.codeHash = sha256Hex(issued[k].code)

----------------------------------------------------------------------------
(* SpecState: the state parameter of an authorization, from the request    *)
(* that starts it to the redirect that ends it, on the manual path and on  *)
(* the upstream path.                                                      *)

\* what a JSON body can carry as state
BodyStates ==
    {JsUndefined, JsString(""), JsString("xyz"), JsString("0"), JsObjectValue}

\* what the query parser makes of the state of a query string
QueryStates ==
    {JsUndefined, JsString(""), JsString("xyz"), JsString("0"),
     JsArrayValue("a,b")}

StateAuthorizations == {[AuthorizeBase EXCEPT !.state = v] : v \in BodyStates}

StateQueries == {[McpParamsBase EXCEPT !.state = v] : v \in QueryStates}

\* the upstream provider sends the user agent to the callback with the
\* state GET /auth/google gave it
UpstreamReturn ==
    /\ lastResp.op = "auth_google"
    /\ lastResp.error = "none"
    /\ GoogleCallback(TRUE, TRUE, DecodeState(lastResp.googleState), TRUE,
                      "ok", "u@x")

InitState ==
    /\ REDIRECT_URI_ALLOWLIST = AllowG
    /\ API_KEY_MODE = "user_bound"
    /\ InitTables
    /\ call = NoCall
    /\ ret = NoRet

NextState ==
    \/ \E r \in TokenRegistrations : clients = {} /\ Register(r)
    \/ \E q \in StateAuthorizations : DoPostAuthorize(q)
    \/ \E q \in StateQueries : AuthGoogle(TRUE, q)
    \/ UpstreamReturn
    \/ Tick

SpecState == InitState /\ [][NextState]_vars

\* C31: the redirect that ends an authorization carries the state the
\* request that started it supplied, as it was supplied, and no state
\* parameter when none was supplied: on POST /authorize, and on the
\* callback that follows GET /auth/google.
C31_StateReturned ==
    [][/\ \A q \in StateAuthorizations :
              (DoPostAuthorize(q) /\ lastResp'.status = 200)
              => lastResp'.state = q.state
       /\ (UpstreamReturn /\ lastResp'.status = 302 /\ lastResp'.code # Undefined)
              => lastResp'.state = lastResp.state]_vars

\* a state that is a string of one character or more comes back as it
\* was, and no state parameter comes back when none was supplied
C31_NonEmptyStringReturned ==
    [][/\ \A q \in StateAuthorizations :
              (/\ DoPostAuthorize(q)
               /\ lastResp'.status = 200
               /\ q.state \in {JsUndefined, JsString("xyz"), JsString("0")})
              => lastResp'.state = q.state
       /\ (/\ UpstreamReturn
           /\ lastResp'.status = 302
           /\ lastResp'.code # Undefined
           /\ lastResp.state \in {JsUndefined, JsString("xyz"), JsString("0")})
              => lastResp'.state = lastResp.state]_vars

----------------------------------------------------------------------------
(* SpecFrame: registration, authorization on both paths, the token        *)
(* exchange and the issuance of API keys, each with rows of clients and    *)
(* connections already there.                                              *)

FrameRegistrations == {JsonArray(<<GoodUri>>), JsonArray(<<GoodUri, GoodUri2>>)}

InitFrame ==
    /\ REDIRECT_URI_ALLOWLIST = AllowG
    /\ API_KEY_MODE = "user_bound"
    /\ InitTables
    /\ call = NoCall
    /\ ret = NoRet

NextFrame ==
    \/ \E r \in FrameRegistrations : Register(r)
    \/ \E q \in SessionAuthorizations : DoPostAuthorize(q)
    \/ DoGoogleCallback(CallbackBase)
    \/ \E q \in SessionTokenInputs : PresentableCode(q.code) /\ DoTokenBegin(q)
    \/ \E i \in 1..MaxTokenCalls : TokenRedeem(i)
    \/ \E i \in 1..MaxTokenCalls : TokenFinish(i)
    \/ IssueApiKey(KeyBody("t1", JsString("t1")), JsString("t1"))

SpecFrame == InitFrame /\ [][NextFrame]_vars

\* C32: registration, authorization, the token exchange and the issuance
\* of an API key leave every row of clients and of connections as it was,
\* redirect_uris, client_id, encrypted_secrets and config included: the row
\* is still there, and it is still the only row with its identifier.
C32_RowsOnlyAdded ==
    [][/\ \A c \in clients :
              /\ c \in clients'
              /\ \A d \in clients' : d.clientId = c.clientId => d = c
       /\ \A c \in connections :
              /\ c \in connections'
              /\ \A d \in connections' : d.id = c.id => d = c]_vars

\* two clients and two connections of the same client are there, one code
\* was exchanged for a token and an API key was issued
C32_Witness ==
    /\ Cardinality(clients) = 2
    /\ \E c, d \in connections : c.id # d.id /\ c.clientId = d.clientId
    /\ sessions # {}
    /\ apiKeys # {}

----------------------------------------------------------------------------
(* POST /token: what a refused request leaves of the code (SpecToken) *)

\* request i was refused before the transaction: its client_id has no row,
\* or its redirect_uri is not allowed
RejectedAtFirstStep(i) ==
    /\ Done(i)
    /\ reqs[i].status = 400
    /\ reqs[i].error \in {"Invalid client_id", "redirect URI is not allowed"}

\* C33: a POST /token refused for its client_id or its redirect_uri has not
\* run the transaction, and the code it named is still redeemable: a correct
\* request for the code whose transaction runs before the expiry gets the
\* row, and succeeds, unless a third request took it.
C33_FirstStepRejectionKeepsCode ==
    \A k \in 1..Len(issued) : \A i, j \in 1..Len(reqs) :
        (RejectedAtFirstStep(i) /\ reqs[i].code = issued[k].code) =>
            /\ reqs[i].now = Null
            /\ reqs[i].token = Undefined
            /\ (/\ j # i
                /\ reqs[j].code = issued[k].code
                /\ CorrectFor(j, issued[k])
                /\ reqs[j].now # Null
                /\ reqs[j].now < issued[k].at + CODE_TTL_SECONDS
                /\ NoOtherTook(i, j, issued[k])) =>
                   /\ reqs[j].token # Undefined
                   /\ Done(j) => Succeeded(j)

\* a request with a redirect_uri that is not allowed was refused, and a
\* later correct request for the same code got the token
C33_Witness ==
    \E k \in 1..Len(issued) : \E i, j \in 1..Len(reqs) :
        /\ i < j
        /\ reqs[i].code = issued[k].code
        /\ reqs[j].code = issued[k].code
        /\ RejectedAtFirstStep(i)
        /\ reqs[i].error = "redirect URI is not allowed"
        /\ Succeeded(j)

\* request i found the row of its code and was refused after the
\* transaction: the connection is another client's, or the verifier does not
\* answer the challenge
RejectedAfterRedeem(i) ==
    /\ Done(i)
    /\ reqs[i].status = 400
    /\ reqs[i].error \in {"Invalid client for code", "Invalid code_verifier"}

\* C34: once a POST /token that found the unexpired row of its code has been
\* refused for the client or for the verifier, the row is gone, and no
\* other request for that code, the correct ones included, gets the row or
\* a token: answered, it has failed with status 400.
C34_FailedRedeemConsumesCode ==
    \A i, j \in 1..Len(reqs) :
        RejectedAfterRedeem(i) =>
            /\ MatchingCodes(sha256Hex(reqs[i].code), 0) = {}
            /\ (j # i /\ reqs[j].code = reqs[i].code) =>
                   /\ reqs[j].token = Undefined
                   /\ Done(j) => reqs[j].status = 400

\* a request with a verifier that does not answer the challenge was refused,
\* and a later correct request for the same code, before its expiry, was
\* told that the code is invalid
C34_Witness ==
    \E k \in 1..Len(issued) : \E i, j \in 1..Len(reqs) :
        /\ i < j
        /\ reqs[i].code = issued[k].code
        /\ reqs[j].code = issued[k].code
        /\ RejectedAfterRedeem(i)
        /\ reqs[i].error = "Invalid code_verifier"
        /\ CorrectFor(j, issued[k])
        /\ reqs[j].now # Null
        /\ reqs[j].now < issued[k].at + CODE_TTL_SECONDS
        /\ Done(j)
        /\ reqs[j].error = "Invalid or expired code"

----------------------------------------------------------------------------
(* POST /token: the session behind a returned token (SpecSession) *)

\* C35: when POST /token answers with an access token, a session with the
\* hash of that token is there and its connection is the one the code was
\* issued for, and the row of the code is gone; and in every step that
\* leaves the connections alone, a code is deleted exactly when a session
\* is inserted, one of each and for the same connection.
C35_TokenHasSession ==
    [][/\ \A i \in 1..MaxTokenCalls :
              (TokenFinish(i) /\ reqs'[i].status = 200) =>
                  /\ reqs'[i].token # Undefined
                  /\ \E k \in 1..Len(issued) : \E x \in sessions' :
                         /\ issued[k].code = reqs'[i].code
                         /\ x.tokenHash = sha256Hex(reqs'[i].token)
                         /\ x.connectionId = issued[k].connectionId
                  /\ \A a \in authCodes' : a.codeHash # sha256Hex(reqs'[i].code)
       /\ connections' = connections =>
              /\ (authCodes \ authCodes' # {}) <=> (sessions' \ sessions # {})
              /\ Cardinality(authCodes \ authCodes') <= 1
              /\ Cardinality(sessions' \ sessions) <= 1
              /\ sessions \subseteq sessions'
              /\ \A a \in authCodes \ authCodes' : \A x \in sessions' \ sessions :
                     x.connectionId = a.connectionId]_vars

\* a token was returned: its session is there, the code is not, and the
\* code and the session of another connection are untouched
C35_Witness ==
    \E i \in 1..Len(reqs) : \E x \in sessions :
        /\ Succeeded(i)
        /\ x.tokenHash = sha256Hex(reqs[i].token)
        /\ \A a \in authCodes : a.codeHash # sha256Hex(reqs[i].code)
        /\ \E a \in authCodes : a.connectionId # x.connectionId

----------------------------------------------------------------------------
(* SpecGuard: the guard of /mcp with a session and an API key in the       *)
(* tables, the session running out, and requests with and without a        *)
(* credential.                                                             *)

GuardInputs ==
    {McpInput(NoBearer, Undefined, Undefined),
     McpInput(Bearer(<<>>), Key1, Undefined),
     McpInput(Bearer(Token1), Undefined, Undefined),
     McpInput(Bearer(BogusToken), Undefined, Undefined),
     McpInput(NoBearer, Key1, Undefined),
     McpInput(NoBearer, BogusKey, Undefined),
     McpInput(NoBearer, Undefined, Key1),
     McpInput(NoBearer, Undefined, BogusKey)}

\* a caller presents a token or a key a response has carried, one of its
\* own making, or none
PresentableCredential(q) ==
    LET token == Presented(q.authorization, q.xApiKey, q.queryApiKey)
    IN  \/ token \in {<<>>, BogusToken, BogusKey}
        \/ \E g \in granted : g.token = token
        \/ \E k \in apiKeys : k.keyHash = sha256Hex(token)

InitGuard ==
    /\ REDIRECT_URI_ALLOWLIST = AllowG
    /\ API_KEY_MODE = "user_bound"
    /\ InitTables
    /\ call = NoCall
    /\ ret = NoRet

NextGuard ==
    \/ \E r \in TokenRegistrations : clients = {} /\ Register(r)
    \/ connections = {} /\ DoPostAuthorize(AuthorizeBase)
    \/ PresentableCode(Code1) /\ DoTokenBegin(TokenInput(Code1, 1, GoodUri, VerifierA))
    \/ \E i \in 1..MaxTokenCalls : TokenRedeem(i)
    \/ \E i \in 1..MaxTokenCalls : TokenFinish(i)
    \/ IssueApiKey(KeyBody("t1", JsString("t1")), JsString("t1"))
    \/ \E q \in GuardInputs : PresentableCredential(q) /\ DoAuthMiddleware(q)
    \/ Tick
    \/ TickLong

SpecGuard == InitGuard /\ [][NextGuard]_vars

\* the request carries no Authorization header of the Bearer scheme, no
\* x-api-key header and no apiKey in its query
NoCredential(q) ==
    /\ ~q.authorization.bearer
    /\ Falsy(q.xApiKey)
    /\ Falsy(q.queryApiKey)

C36_WitnessNoCredential ==
    /\ lastResp.op = "mcp"
    /\ lastResp.status = 200
    /\ lastResp.token = <<>>
    /\ lastResp.auth = NoAuth
    /\ sessions # {}
    /\ apiKeys # {}

----------------------------------------------------------------------------
(* The upstream callback of a portal sign-in (SpecIssue) *)

\* C37: an upstream callback whose state decodes to parameters without
\* client_id or without redirect_uri creates no connection, no code and no
\* session and sends no code; when the sign-in gave an identity it stores
\* the identity's credential and redirects to the portal.
C37_PortalLoginCreatesNothing ==
    [][\A q \in CallbackInputs :
          (/\ DoGoogleCallback(q)
           /\ q.hasParams /\ q.decodes
           /\ (q.mcpParams.client_id = NoClientId \/ q.mcpParams.redirect_uri = NoUri))
          => /\ UNCHANGED <<connections, authCodes, sessions, issued>>
             /\ lastResp'.code = Undefined
             /\ (q.oauthConfigured /\ q.upstream = "ok" /\ q.email # "")
                => /\ q.email \in credentials'
                   /\ lastResp'.status = 302
                   /\ lastResp'.uri = NoUri]_vars

\* a portal sign-in was answered with a client registered: the credential
\* is stored and no connection was made
C37_Witness ==
    /\ lastResp.op = "callback"
    /\ lastResp.status = 302
    /\ lastResp.code = Undefined
    /\ "u@x" \in credentials
    /\ clients # {}
    /\ connections = {}

----------------------------------------------------------------------------
(* SpecIntegrity: issuance on both paths for a registered and for an       *)
(* unknown client, the token exchange, API keys, and the CLI's deletion of *)
(* connections.                                                            *)

UnknownClientId == 3

IntegrityAuthorizations ==
    {AuthorizeBase, [AuthorizeBase EXCEPT !.client_id = UnknownClientId]}

IntegrityCallbacks ==
    {CallbackBase,
     [CallbackBase EXCEPT !.mcpParams =
         [McpParamsBase EXCEPT !.client_id = UnknownClientId]]}

InitIntegrity ==
    /\ REDIRECT_URI_ALLOWLIST = AllowG
    /\ API_KEY_MODE = "user_bound"
    /\ InitTables
    /\ call = NoCall
    /\ ret = NoRet

NextIntegrity ==
    \/ \E r \in TokenRegistrations : clients = {} /\ Register(r)
    \/ \E q \in IntegrityAuthorizations : DoPostAuthorize(q)
    \/ \E q \in IntegrityCallbacks : DoGoogleCallback(q)
    \/ \E q \in SessionTokenInputs : PresentableCode(q.code) /\ DoTokenBegin(q)
    \/ \E i \in 1..MaxTokenCalls : TokenRedeem(i)
    \/ \E i \in 1..MaxTokenCalls : TokenFinish(i)
    \/ IssueApiKey(KeyBody("t1", JsString("t1")), JsString("t1"))
    \/ \E id \in 1..MaxIssued : deleteConnection(id)

SpecIntegrity == InitIntegrity /\ [][NextIntegrity]_vars

\* every reference of a row is to a row that is there
ReferencesResolve ==
    /\ \A a \in authCodes : ConnectionRows(a.connectionId) # {}
    /\ \A x \in sessions : ConnectionRows(x.connectionId) # {}
    /\ \A c \in connections : ClientRows(c.clientId) # {}
    /\ \A k \in apiKeys : \E u \in userConfigs : u.id = k.userConfigId

\* C38: after every step each code and each session has its connection,
\* each connection its client and each API key its user config; and an
\* issuance, on either path, that names a client_id without a row is
\* refused and writes no row and sends no code.
C38_ReferentialIntegrity ==
    [][/\ ReferencesResolve'
       /\ \A q \in IntegrityAuthorizations :
              (DoPostAuthorize(q) /\ ClientRows(q.client_id) = {})
              => /\ lastResp'.status = 400
                 /\ lastResp'.code = Undefined
                 /\ UNCHANGED <<clients, connections, authCodes, sessions>>
       /\ \A q \in IntegrityCallbacks :
              (DoGoogleCallback(q) /\ ClientRows(q.mcpParams.client_id) = {})
              => /\ lastResp'.status = 500
                 /\ lastResp'.code = Undefined
                 /\ UNCHANGED <<clients, connections, authCodes, sessions>>]_vars

\* the callback was refused for a client that has no row, with a session
\* of a registered client's connection and an API key in the tables
C38_Witness ==
    /\ lastResp.op = "callback"
    /\ lastResp.status = 500
    /\ connections # {}
    /\ sessions # {}
    /\ apiKeys # {}
    /\ ReferencesResolve

============================================================================
